---- MODULE Spec2Model ----
(***************************************************************************)
(* A model of the hybrid dungeon synth engine of gameofdeath               *)
(* (src/src/audio/hybrid_dungeon_synth.rs).                                *)
(*                                                                         *)
(* f32 quantities are carried as scaled integers:                          *)
(*   frequencies            centi-Hz        (Hz * 100)                     *)
(*   features, velocities   thousandths     (x * 1000)                     *)
(*   rand::random::<f32>()  thousandths     in 0..999                      *)
(*   pitch ratio, position  thousandths of a sample                        *)
(*   amplitude, decay rate  millionths      (x * 1000000)                  *)
(*   limiter signal levels  ten-thousandths (x * 10000)                    *)
(* Products are truncated toward zero after rescaling.                     *)
(***************************************************************************)
EXTENDS Integers, Sequences, FiniteSets, TLC

VARIABLES
    \* HybridDungeonSynthEngine
    current_features,           \* [f32; 8] as a function on 0..7, thousandths
    update_counter,
    pattern_memory,             \* [f32; 16], ten-thousandths
    evolution_phase,            \* in samples: the f32 phase times sample_rate * 30
    micro_variation_timer,      \* in samples: the f32 timer times sample_rate * 2
    harmonic_drift,             \* [f32; 4], ten-thousandths
    scale_evolution,            \* ten-thousandths
    temporal_complexity,        \* ten-thousandths
    synthesis_mix,              \* ten-thousandths
    master_gain,                \* ten-thousandths
    peak_detector,              \* ten-thousandths
    compression_ratio,          \* ten-thousandths
    scale_notes,                \* [f32; 7], centi-Hz
    last_milestone_generation,
    current_voices,             \* medieval_samples.current_voices
    cell_matrix,                \* [grid, regions, total_cells]
    cathedral_drone,            \* [base_frequencies, oscillators], centi-Hz
    crypt_reverb,               \* [delay_lines]: write_pos and delay_samples of each
    \* the simulation that feeds the engine
    \* the static HYBRID_ENGINE, the threads around it and the simulation
    engine_some,                \* HYBRID_ENGINE holds Some(engine)
    mutex,                      \* "free" or the thread that holds the lock
    pc,                         \* where each thread stands
    sample_counter,             \* HybridAudioSource.sample_counter
    stream_position,            \* values HybridAudioSource::next has returned,
                                \* modulo the 2 channels of the stream
    sim,                        \* [generation, scene]: game_stats.generation and
                                \* the 7 other features the analyzer extracts
    \* observations
    op,                         \* the call made by the last step, with its arguments
    ret,                        \* what that call returned
    calls,                      \* number of calls made so far in a bounded run
    milestone_bells,            \* number of milestone bells triggered so far
    recompute_root              \* root_hz of the latest recompute, 0 before it

clockVars == <<pattern_memory, evolution_phase, micro_variation_timer,
               harmonic_drift, scale_evolution, temporal_complexity>>

limiterVars == <<master_gain, peak_detector, compression_ratio>>

synthVars == <<cathedral_drone, crypt_reverb>>

engineVars == <<current_features, update_counter, clockVars, synthesis_mix,
                limiterVars, scale_notes, last_milestone_generation,
                current_voices, cell_matrix, synthVars>>

sharedVars == <<engine_some, mutex, pc, sample_counter, stream_position, sim>>

historyVars == <<milestone_bells, recompute_root>>

vars == <<engineVars, sharedVars, op, ret, calls, historyVars>>

----------------------------------------------------------------------------
(* Arithmetic helpers *)

Abs(x) == IF x < 0 THEN -x ELSE x

Sign(x) == IF x < 0 THEN -1 ELSE 1

Min(a, b) == IF a < b THEN a ELSE b

Max(a, b) == IF a > b THEN a ELSE b

\* integer division truncating toward zero (f32 -> integer casts, scaled products)
TruncDiv(a, b) == IF a >= 0 THEN a \div b ELSE -((-a) \div b)

Clamp(x, lo, hi) == Max(lo, Min(x, hi))

\* a * b / 1000000 for a, b >= 0, truncated; the product is formed in parts
\* so that no intermediate value leaves the 32-bit range
MulMicro(a, b) ==
    LET ah == a \div 1000
        al == a % 1000
        bh == b \div 1000
        bl == b % 1000
    IN  ah * bh + (ah * bl + al * bh + (al * bl) \div 1000) \div 1000

----------------------------------------------------------------------------
(* MedievalSampleBank *)

\* polyphony cap tested by trigger_lute and trigger_bell
MaxVoices == 6

\* samples per second of the baked sample buffers (44100 in the source; the
\* model bakes shorter buffers)
BankSampleRate == 1

\* durations in seconds passed to generate_lute_sample / generate_bell_sample
LuteDuration == 2

BellDuration == 4

\* base frequencies of the 4 lute and the 4 bell samples, centi-Hz
LuteBaseFrequencies == <<22000, 29366, 36999, 44000>>

BellBaseFrequencies == <<13081, 16481, 19600, 22000>>

\* the calls a caller may make: <<note (centi-Hz), velocity (thousandths),
\* the call's three rand::random::<f32>() draws (thousandths) in source
\* order>>.  The second lute call starts 0.8% above the 0.001 amplitude floor
\* and is removed by decay; the others run off the end of their buffers.
LuteCalls == { <<44000, 600, <<0, 0, 0>>>>, <<11000, 2, <<500, 0, 400>>>> }

BellCalls == { <<44000, 600, <<500, 999, 500>>>> }

\* index of the sample whose base_frequency is closest to target_freq;
\* Iterator::min_by keeps the first of several equal minima
FindClosest(bases, target_freq) ==
    CHOOSE i \in 1..Len(bases) :
        /\ \A j \in 1..Len(bases) :
               Abs(bases[i] - target_freq) <= Abs(bases[j] - target_freq)
        /\ \A j \in 1..(i - 1) :
               Abs(bases[j] - target_freq) > Abs(bases[i] - target_freq)

\* the PlayingVoice built by trigger_lute
LuteVoice(note, velocity, r) ==
    LET base == LuteBaseFrequencies[FindClosest(LuteBaseFrequencies, note)]
        pitch_variation == 1000000 + (r[1] - 500) * 10
        decay_variation == 998000 + r[2] * 2
        velocity_variation == velocity * (600 + (r[3] * 3) \div 10)
    IN  [ sample_len  |-> BankSampleRate * LuteDuration,
          position    |-> 0,
          pitch_ratio |-> MulMicro((note * 1000) \div base, pitch_variation),
          amplitude   |-> (velocity_variation * 7) \div 10,
          decay_rate  |-> decay_variation ]

\* the PlayingVoice built by trigger_bell
BellVoice(note, velocity, r) ==
    LET base == BellBaseFrequencies[FindClosest(BellBaseFrequencies, note)]
        pitch_variation == 1000000 + (r[1] - 500) * 8
        velocity_variation == velocity * (500 + (r[2] * 4) \div 10)
        decay_variation == 999900 + r[3] \div 10
    IN  [ sample_len  |-> BankSampleRate * BellDuration,
          position    |-> 0,
          pitch_ratio |-> MulMicro((note * 1000) \div base, pitch_variation),
          amplitude   |-> (velocity_variation * 6) \div 10,
          decay_rate  |-> decay_variation ]

\* a trigger_lute whose admission test is off by one
trigger_lute_off_by_one(voices, note, velocity, r) ==
    IF Len(voices) > MaxVoices
    THEN voices
    ELSE Append(voices, LuteVoice(note, velocity, r))

trigger_lute(voices, note, velocity, r) ==
    IF Len(voices) >= MaxVoices
    THEN voices
    ELSE Append(voices, LuteVoice(note, velocity, r))

trigger_bell(voices, note, velocity, r) ==
    IF Len(voices) >= MaxVoices
    THEN voices
    ELSE Append(voices, BellVoice(note, velocity, r))

\* a closure body that moves neither the position nor the amplitude
AdvanceVoiceFrozen(v) == v

\* one voice after the body of the retain_mut closure
AdvanceVoice(v) ==
    [v EXCEPT !.position  = v.position + v.pitch_ratio,
              !.amplitude = MulMicro(v.amplitude, v.decay_rate)]

\* a closure that does not test the position against the buffer
VoiceRetainedUnbounded(v) == AdvanceVoice(v).amplitude > 1000

\* the closure's verdict on a voice as it stood before the call
VoiceRetained(v) ==
    /\ v.position \div 1000 < v.sample_len
    /\ AdvanceVoice(v).amplitude > 1000

RECURSIVE RetainMut(_)
RetainMut(voices) ==
    IF voices = <<>>
    THEN <<>>
    ELSE IF VoiceRetained(Head(voices))
         THEN <<AdvanceVoice(Head(voices))>> \o RetainMut(Tail(voices))
         ELSE RetainMut(Tail(voices))

\* MedievalSampleBank::process, as far as the voice pool goes (the summed
\* output sample is a signal value and is not carried)
bank_process(voices) == RetainMut(voices)

----------------------------------------------------------------------------
(* SimpleNeuralModulator.  Weights are carried in tenths (every weight the  *)
(* source sets is a multiple of 0.1), sums and activations in               *)
(* ten-thousandths.                                                        *)

\* input_weights[i][j] as set by init_dungeon_synth_weights, 0-based i, j
input_weights(i, j) ==
    CASE i % 4 = 0 -> IF j < 2 THEN 8 ELSE 2
      [] i % 4 = 1 -> IF j = 2 \/ j = 6 THEN 9 ELSE 1
      [] i % 4 = 2 -> IF j > 3 THEN 7 ELSE 3
      [] i % 4 = 3 -> 5 + (i - 8)

\* hidden_bias[i] = -0.5 + i / 16
hidden_bias(i) == -5000 + 625 * i

\* hidden_weights[i][j], 0-based i, j
hidden_weights(i, j) ==
    CASE i = 0 -> IF j < 4 THEN 6 ELSE 2
      [] i = 1 -> IF j >= 4 /\ j < 8 THEN 7 ELSE 1
      [] i = 2 -> IF j >= 8 /\ j < 12 THEN 8 ELSE 2
      [] i = 3 -> IF j >= 12 THEN 9 ELSE 3
      [] i \in 4..7 -> 4 + ((i + j) % 3) * 2

output_bias(i) == 0

\* x * (27 + x^2) / (27 + 9 x^2); the quotient (27 + x^2)/(27 + 9 x^2) is
\* taken in thousandths
tanh_activation(x) ==
    LET x2 == ((Abs(x) \div 10) * (Abs(x) \div 10)) \div 100
        q  == ((270000 + x2) * 1000) \div (270000 + 9 * x2)
    IN  TruncDiv(x * q, 1000)

RECURSIVE SumTo(_, _)
\* f[0] + ... + f[n]
SumTo(f, n) == IF n < 0 THEN 0 ELSE f[n] + SumTo(f, n - 1)

\* SimpleNeuralModulator::forward; inputs is a function on 0..7
forward(inputs) ==
    LET hidden == [i \in 0..15 |->
            tanh_activation(hidden_bias(i)
                + SumTo([j \in 0..7 |-> TruncDiv(inputs[j] * input_weights(i, j), 10)], 7))]
    IN  [i \in 0..7 |->
            tanh_activation(output_bias(i)
                + SumTo([j \in 0..15 |-> TruncDiv(hidden[j] * hidden_weights(i, j), 10)], 15))]

\* game_features is a function on 0..7 in thousandths; the result is a
\* function on 0..7 in ten-thousandths
get_modulation_values(game_features) ==
    LET normalized_inputs == [i \in 0..7 |->
            Clamp(game_features[i] * 20 - 10000, -10000, 10000)]
        outputs == forward(normalized_inputs)
    IN  [i \in 0..7 |-> TruncDiv(outputs[i] + 10000, 2)]

----------------------------------------------------------------------------
(* Musical scale *)

\* 2^(k/12) in millionths, k = -6..12 (f32::powf on a whole number of
\* semitones)
SemitoneRatio ==
    [k \in -6..12 |->
        CASE k = -6 -> 707107  [] k = -5 -> 749154  [] k = -4 -> 793701
          [] k = -3 -> 840896  [] k = -2 -> 890899  [] k = -1 -> 943874
          [] k = 0 -> 1000000  [] k = 1 -> 1059463  [] k = 2 -> 1122462
          [] k = 3 -> 1189207  [] k = 4 -> 1259921  [] k = 5 -> 1334840
          [] k = 6 -> 1414214  [] k = 7 -> 1498307  [] k = 8 -> 1587401
          [] k = 9 -> 1681793  [] k = 10 -> 1781797 [] k = 11 -> 1887749
          [] k = 12 -> 2000000]

\* 2^(e/1000) in millionths for e in -500..1000, interpolated between
\* semitones
Pow2(e) ==
    LET pos  == e * 12 + 6000
        k    == pos \div 1000 - 6
        frac == pos % 1000
    IN  IF frac = 0
        THEN SemitoneRatio[k]
        ELSE SemitoneRatio[k]
             + ((SemitoneRatio[k + 1] - SemitoneRatio[k]) * frac) \div 1000

\* semitone intervals of the major scale
MAJOR == <<0, 2, 4, 5, 7, 9, 11>>

\* MAJOR.iter().cycle().skip(mode).take(7).map(|v| *v - MAJOR[mode])
Rotated(mode) ==
    [i \in 1..7 |-> MAJOR[((mode + i - 1) % 7) + 1] - MAJOR[mode + 1]]

\* a build_scale that forgets to normalise the rotation to its first degree
build_scale_unnormalised(root_hz, mode) ==
    [i \in 1..7 |-> MulMicro(root_hz, SemitoneRatio[MAJOR[((mode + i - 1) % 7) + 1]])]

\* build_scale(root_hz, mode): 7 notes in centi-Hz
build_scale(root_hz, mode) ==
    [i \in 1..7 |-> MulMicro(root_hz, SemitoneRatio[Rotated(mode)[i]])]

\* scale_choice = ((symmetry + chaos) * 4.0) as usize % 4
ScaleChoice(symmetry, chaos) == (((symmetry + chaos) * 4) \div 1000) % 4

\* root_hz = 55.0 * 2^(symmetry - 0.5), centi-Hz
RootHz(symmetry) == MulMicro(5500, Pow2(symmetry - 500))

----------------------------------------------------------------------------
(* Master limiter, levels in ten-thousandths *)

\* [master_gain, peak_detector, compression_ratio] after the adaptive part
LimiterAdapt(lim, input) ==
    LET input_level == Abs(input)
        peak == (lim.peak_detector * 9995 + input_level * 5) \div 10000
    IN  IF peak > 8000
        THEN [ peak_detector     |-> peak,
               compression_ratio |-> Min((lim.compression_ratio * 999 + 3000) \div 1000, 8000),
               master_gain       |-> Max((lim.master_gain * 9999 + 7000) \div 10000, 4000) ]
        ELSE IF peak < 3000
        THEN [ peak_detector     |-> peak,
               compression_ratio |-> Max((lim.compression_ratio * 999 + 10000) \div 1000, 3000),
               master_gain       |-> Min((lim.master_gain * 9999 + 10000) \div 10000, 12000) ]
        ELSE [lim EXCEPT !.peak_detector = peak]

\* a first stage whose slope above 0.7 is 1 - ratio
LimiterStage1Inverted(output, ratio) ==
    IF Abs(output) > 7000
    THEN Sign(output) * (7000 + ((Abs(output) - 7000) * (10000 - ratio)) \div 10000)
    ELSE output

\* first stage: gentle compression above 0.7 with the adaptive ratio
LimiterStage1(output, ratio) ==
    IF Abs(output) > 7000
    THEN Sign(output) * (7000 + ((Abs(output) - 7000) * ratio) \div 10000)
    ELSE output

\* a second stage that compresses but has lost its ceiling
LimiterStage2NoCeiling(output) ==
    IF Abs(output) > 8500
    THEN Sign(output) * (8500 + (Abs(output) - 8500) \div 10)
    ELSE output

\* second stage: ratio 0.1 above 0.85, ceiling 0.95
LimiterStage2(output) ==
    IF Abs(output) > 8500
    THEN Sign(output) * Min(8500 + (Abs(output) - 8500) \div 10, 9500)
    ELSE output

\* master_limiter: [lim |-> the limiter state after the call, out |-> the
\* returned sample]
master_limiter(lim, input) ==
    LET after == LimiterAdapt(lim, input)
        gained_input == TruncDiv(input * after.master_gain, 10000)
    IN  [ lim |-> after,
          out |-> LimiterStage2(LimiterStage1(gained_input, after.compression_ratio)) ]

\* (left * 0.8, right * 0.8) with left = limited, right = limited * 0.96
StereoPair(limited) ==
    [ left  |-> TruncDiv(limited * 8, 10),
      right |-> TruncDiv(TruncDiv(limited * 96, 100) * 8, 10) ]

----------------------------------------------------------------------------
(* The cell matrix: coordinates are integers, densities, intensities and   *)
(* complexities are in thousandths                                         *)

\* max_cells_per_region
MaxCellsPerRegion == 50

\* cells.len() > 200 selects the grouped update
DirectLimit == 200

\* [(0.0, 0.0, 0.0); 16]
ZeroRegions ==
    [idx \in 0..15 |-> [density |-> 0, activity |-> 0, complexity |-> 0]]

\* CellMatrix::new
NewCellMatrix ==
    [ grid |-> << >>, regions |-> ZeroRegions, total_cells |-> 0 ]

\* ((c as f32 - camera + viewport_size * 2.0) / region_size).floor() as usize
\* with region_size = viewport_size / 4.0; the cast takes negative values to 0
RegionCoord(c, camera, viewport_size) ==
    Max((4 * (c - camera + 2 * viewport_size)) \div viewport_size, 0)

\* the region a cell is counted in, -1 when region_x < 4 && region_y < 4 fails
RegionOf(cell, camera_x, camera_y, viewport_size) ==
    LET region_x == RegionCoord(cell[1], camera_x, viewport_size)
        region_y == RegionCoord(cell[2], camera_y, viewport_size)
    IN  IF region_x < 4 /\ region_y < 4 THEN region_y * 4 + region_x ELSE -1

\* i32: the coordinates and every intermediate result of dist_sq
MaxI32 == 2147483647

MinI32 == -MaxI32 - 1

\* p - q leaves the i32 range
SubOverflows(p, q) == IF q < 0 THEN p > MaxI32 + q ELSE p < MinI32 + q

\* p - q in i32, wrapping (the difference is taken modulo 2^32)
SubWrap(p, q) ==
    IF ~SubOverflows(p, q)
    THEN p - q
    ELSE IF q < 0
    THEN ((p - MaxI32) - 1) - ((q + MaxI32) + 1)
    ELSE ((p + MaxI32) + 1) + ((MaxI32 - q) + 1)

\* p + q leaves the i32 range
AddOverflows(p, q) ==
    IF q > 0 THEN p > MaxI32 - q ELSE IF q < 0 THEN p < MinI32 - q ELSE FALSE

\* p + q in i32, wrapping
AddWrap(p, q) ==
    IF ~AddOverflows(p, q)
    THEN p + q
    ELSE IF q > 0
    THEN ((p - MaxI32) - 1) + ((q - MaxI32) - 1)
    ELSE ((p + MaxI32) + 1) + ((q + MaxI32) + 1)

\* d.pow(2) leaves the i32 range (46340^2 < 2^31 <= 46341^2)
SquareOverflows(d) == d < -46340 \/ d > 46340

\* d.pow(2) in i32, wrapping: the low 32 bits of the square, computed on the
\* 16-bit halves of |d| = a * 2^16 + b1 * 2^8 + b0, read as a signed value
SquareWrap(d) ==
    IF ~SquareOverflows(d)
    THEN d * d
    ELSE IF d = MinI32
    THEN 0
    ELSE LET u == Abs(d)
             a == u \div 65536
             b == u % 65536
             b1 == b \div 256
             b0 == b % 256
             cross == 2 * b1 * b0
             lo_raw == b0 * b0 + (cross % 256) * 256
             hi_raw == cross \div 256 + b1 * b1 + 2 * ((a * b) % 32768)
                         + lo_raw \div 65536
             hi == hi_raw % 65536
             lo == lo_raw % 65536
         IN  IF hi >= 32768 THEN (hi - 65536) * 65536 + lo ELSE hi * 65536 + lo

\* some operation of dist_sq overflows: the point where a build with
\* overflow checks panics
DistSqOverflows(a, b) ==
    \/ SubOverflows(a[1], b[1])
    \/ SubOverflows(a[2], b[2])
    \/ SquareOverflows(a[1] - b[1])
    \/ SquareOverflows(a[2] - b[2])
    \/ AddOverflows((a[1] - b[1]) * (a[1] - b[1]), (a[2] - b[2]) * (a[2] - b[2]))

\* (cx - x).pow(2) + (cy - y).pow(2), as a build without overflow checks
\* computes it
DistSq(a, b) ==
    AddWrap(SquareWrap(SubWrap(a[1], b[1])), SquareWrap(SubWrap(a[2], b[2])))

\* number of cells of the list within dist_sq <= limit of the centre
CountIf(cells, centre, limit) ==
    Cardinality({k \in 1..Len(cells) : DistSq(cells[k], centre) <= limit})

\* calculate_local_intensity
calculate_local_intensity(x, y, cells) ==
    Min((CountIf(cells, <<x, y>>, 9) * 1000) \div 9, 1000)

RECURSIVE Isqrt(_, _, _)
\* largest r in lo..hi with r * r <= v, by bisection (lo * lo <= v < (hi + 1)^2)
Isqrt(v, lo, hi) ==
    IF lo = hi
    THEN lo
    ELSE LET mid == (lo + hi + 1) \div 2
         IN  IF mid * mid <= v THEN Isqrt(v, mid, hi) ELSE Isqrt(v, lo, mid - 1)

\* 1.0 / dist.sqrt(), thousandths, for a squared distance dist >= 1
InvSqrt(dist) == Isqrt(1000000 \div dist, 0, 1000)

RECURSIVE SumRange(_, _, _)
\* s[lo] + ... + s[hi], by halves
SumRange(s, lo, hi) ==
    IF lo > hi
    THEN 0
    ELSE IF lo = hi
         THEN s[lo]
         ELSE LET mid == (lo + hi) \div 2
              IN  SumRange(s, lo, mid) + SumRange(s, mid + 1, hi)

\* s[k] + ... + s[Len(s)]
SumSeq(s, k) == SumRange(s, k, Len(s))

\* calculate_local_complexity
calculate_local_complexity(x, y, cells) ==
    LET near == SelectSeq(cells, LAMBDA c : DistSq(c, <<x, y>>) <= 25)
        n == Len(near)
        regularity_score ==
            SumSeq([i \in 1..(n * n) |->
                      LET a == near[((i - 1) \div n) + 1]
                          b == near[((i - 1) % n) + 1]
                      IN  IF a # b /\ DistSq(a, b) > 0 THEN InvSqrt(DistSq(a, b)) ELSE 0], 1)
    IN  IF n > 2 THEN Min(regularity_score \div n, 1000) ELSE 0

\* region_idx of every cell of the list, in list order
Buckets(cells, camera_x, camera_y, viewport_size) ==
    [k \in 1..Len(cells) |-> RegionOf(cells[k], camera_x, camera_y, viewport_size)]

\* update_direct: the matrix, and next to it the region each cell was
\* counted in and the cells whose intensity was computed
update_direct(cells, camera_x, camera_y, viewport_size) ==
    LET bucket == Buckets(cells, camera_x, camera_y, viewport_size)
        intensity == [k \in 1..Len(cells) |->
                        calculate_local_intensity(cells[k][1], cells[k][2], cells)]
        count(idx) == Cardinality({k \in 1..Len(cells) : bucket[k] = idx})
        activity(idx) ==
            SumSeq([k \in 1..Len(cells) |->
                      IF bucket[k] = idx THEN intensity[k] ELSE 0], 1)
        complexity(idx) ==
            SumSeq([k \in 1..Len(cells) |->
                      IF bucket[k] = idx
                      THEN calculate_local_complexity(cells[k][1], cells[k][2], cells)
                      ELSE 0], 1)
        density(idx) == (count(idx) * 1000) \div MaxCellsPerRegion
    IN  [ matrix |->
            [ grid |-> [c \in {cells[k] : k \in 1..Len(cells)} |->
                          calculate_local_intensity(c[1], c[2], cells)],
              regions |-> [idx \in 0..15 |->
                  [ density    |-> density(idx),
                    activity   |-> (activity(idx) * 1000) \div Max(density(idx), 1000),
                    complexity |-> (complexity(idx) * 1000) \div Max(density(idx), 1000) ]],
              total_cells |-> Len(cells) ],
          bucket |-> bucket,
          sampled |-> [idx \in 0..15 |-> {k \in 1..Len(cells) : bucket[k] = idx}],
          processed |-> Len(cells) ]

\* a sampling that steps through the region list but does not stop at
\* cell_count cells
SampledPositionsNoTake(n) ==
    LET sample_step == IF n > MaxCellsPerRegion THEN n \div MaxCellsPerRegion ELSE 1
    IN  {i * sample_step + 1 : i \in {j \in 0..(n - 1) : j * sample_step < n}}

\* positions (from 1) of the cells sampled in a region list of n cells:
\* (0..n).step_by(sample_step).take(cell_count)
SampledPositions(n) ==
    LET cell_count == Min(n, MaxCellsPerRegion)
        sample_step == IF n > MaxCellsPerRegion THEN n \div MaxCellsPerRegion ELSE 1
    IN  {i * sample_step + 1 : i \in {j \in 0..(cell_count - 1) : j * sample_step < n}}

\* region_cells: for each region the positions in the cell list of the
\* cells pushed to it, in list order
RegionCells(bucket) ==
    [idx \in 0..15 |->
        SelectSeq([k \in 1..Len(bucket) |-> k], LAMBDA k : bucket[k] = idx)]

\* the second loop of update_with_spatial_grouping, over region_cells
ProcessRegions(cells, bucket, positions) ==
    LET region_cell_list == [idx \in 0..15 |->
            [i \in 1..Len(positions[idx]) |-> cells[positions[idx][i]]]]
        sampled == [idx \in 0..15 |->
            {positions[idx][i] : i \in SampledPositions(Len(positions[idx]))}]
        cell_count == [idx \in 0..15 |-> Min(Len(positions[idx]), MaxCellsPerRegion)]
        total_intensity(idx) ==
            SumSeq([i \in 1..Len(positions[idx]) |->
                      IF positions[idx][i] \in sampled[idx]
                      THEN calculate_local_intensity(region_cell_list[idx][i][1],
                               region_cell_list[idx][i][2], region_cell_list[idx])
                      ELSE 0], 1)
        total_complexity(idx) ==
            SumSeq([i \in 1..Len(positions[idx]) |->
                      IF positions[idx][i] \in sampled[idx]
                      THEN calculate_local_complexity(region_cell_list[idx][i][1],
                               region_cell_list[idx][i][2], region_cell_list[idx])
                      ELSE 0], 1)
        all_sampled == UNION {sampled[idx] : idx \in 0..15}
    IN  [ matrix |->
            [ grid |-> [c \in {cells[k] : k \in all_sampled} |->
                          LET k == CHOOSE j \in all_sampled : cells[j] = c
                          IN  calculate_local_intensity(c[1], c[2],
                                                        region_cell_list[bucket[k]])],
              regions |-> [idx \in 0..15 |->
                  IF Len(positions[idx]) = 0
                  THEN ZeroRegions[idx]
                  ELSE [ density    |-> (cell_count[idx] * 1000) \div MaxCellsPerRegion,
                         activity   |-> total_intensity(idx) \div cell_count[idx],
                         complexity |-> total_complexity(idx) \div cell_count[idx] ]],
              total_cells |-> Len(cells) ],
          bucket |-> bucket,
          sampled |-> sampled,
          processed |-> Cardinality(all_sampled) ]

\* update_with_spatial_grouping: group the cells by region, then process
\* each region's list
update_with_spatial_grouping(cells, camera_x, camera_y, viewport_size) ==
    CHOOSE result \in
        { ProcessRegions(cells, bucket, RegionCells(bucket)) :
            bucket \in {Buckets(cells, camera_x, camera_y, viewport_size)} } : TRUE

\* update_from_cells
update_from_cells(cells, camera_x, camera_y, viewport_size) ==
    IF Len(cells) > DirectLimit
    THEN update_with_spatial_grouping(cells, camera_x, camera_y, viewport_size)
    ELSE update_direct(cells, camera_x, camera_y, viewport_size)

----------------------------------------------------------------------------
(* CathedralDroneLayer: the oscillators' frequencies, centi-Hz *)

\* base_frequencies of CathedralDroneLayer::new
InitialBaseFrequencies == <<3270, 6540, 8240, 9800>>

\* HybridDungeonSynthEngine::new(44100.0) of init_hybrid_dungeon_synth: the
\* rate the oscillators' phases and the delay lines are laid out for (the
\* periods of the evolution clock are scaled by SampleRate instead)
EngineSampleRate == 44100

\* one turn of an oscillator's phase, in steps of a centi-Hz per sample
PhaseTurn == EngineSampleRate * 100

\* harmonic_weights of CathedralDroneLayer::new, thousandths
InitialHarmonicWeights == <<1000, 800, 600, 400, 300, 200, 150, 100>>

\* CathedralDroneLayer::new
NewCathedralDrone ==
    [ base_frequencies |-> InitialBaseFrequencies,
      oscillators |-> [i \in 1..4 |->
          [ frequency        |-> InitialBaseFrequencies[i],
            phase            |-> 0,
            harmonic_weights |-> InitialHarmonicWeights ]] ]

\* drone_bases of update_all_parameters: sub-octaves of scale degrees 0, 2, 4
DroneBases(scale) ==
    << scale[1] \div 4, scale[1] \div 2, scale[3] \div 2, scale[5] \div 2 >>

\* drone_darkness = (1.0 - symmetry) * (1.0 + chaos * 0.3), thousandths
DroneDarkness(f) == ((1000 - f[5]) * (1000 + (f[6] * 3) \div 10)) \div 1000

\* regional_complexity: the sum of the 16 regions' complexities, thousandths
RegionalComplexity(regions) == SumSeq([k \in 1..16 |-> regions[k - 1].complexity], 1)

\* osc.frequency of update_parameters for oscillator i (from 1):
\* base_frequencies[i] * (1.0 + complexity_drift) + darkness * 3.0 * (i - 1.5)
RetunedFrequency(base, i, darkness, regions) ==
    MulMicro(base[i], 1000000 + RegionalComplexity(regions) * 20)
    + TruncDiv(darkness * 3 * (2 * (i - 1) - 3), 20)

\* base_weight = 1.0 / (h + 1).sqrt() for h = 0..7, thousandths
BaseWeights == <<1000, 707, 577, 500, 447, 408, 378, 354>>

\* harmonic_brightness = 0.6 - darkness * 0.5 + neural_mod * 0.3, thousandths
\* (neural_mod in ten-thousandths)
HarmonicBrightness(darkness, neural_mod) ==
    600 - TruncDiv(darkness, 2) + TruncDiv(neural_mod * 3, 100)

\* base_weight * harmonic_mod * harmonic_emphasis for harmonic h (from 0),
\* before the clamp
RawWeight(h, darkness, neural_mod, regions) ==
    LET brightness == HarmonicBrightness(darkness, neural_mod)
        harmonic_mod == TruncDiv(brightness * (10000 + TruncDiv(neural_mod * 3, 10)), 10000)
        region_harmonic_mod == regions[h % 16].activity
        harmonic_emphasis ==
            IF h > 3
            THEN TruncDiv(brightness * 3, 2) + TruncDiv(region_harmonic_mod * 3, 10)
            ELSE 1000 + TruncDiv(region_harmonic_mod, 10)
    IN  TruncDiv(TruncDiv(BaseWeights[h + 1] * harmonic_mod, 1000) * harmonic_emphasis, 1000)

\* an update that stores the weight as computed
UnclampedWeight(h, darkness, neural_mod, regions) ==
    RawWeight(h, darkness, neural_mod, regions)

\* *weight = (base_weight * harmonic_mod * harmonic_emphasis).clamp(0.05, 1.0)
UpdatedWeight(h, darkness, neural_mod, regions) ==
    Clamp(RawWeight(h, darkness, neural_mod, regions), 50, 1000)

\* CathedralDroneLayer::update_parameters after set_base_frequencies(base)
drone_update_parameters(drone, base, darkness, neural_mod, regions) ==
    [drone EXCEPT
        !.base_frequencies = base,
        !.oscillators = [i \in 1..4 |->
            [@[i] EXCEPT
                !.frequency = RetunedFrequency(base, i, darkness, regions),
                !.harmonic_weights = [h \in 1..8 |->
                    UpdatedWeight(h - 1, darkness, neural_mod, regions)]]]]

\* the end of the oscillator loop of CathedralDroneLayer::process:
\* osc.phase += osc.frequency / sample_rate; if osc.phase >= 1.0 { -= 1.0 }
AdvanceOscillator(osc) ==
    [osc EXCEPT !.phase = IF @ + osc.frequency >= PhaseTurn
                          THEN @ + osc.frequency - PhaseTurn
                          ELSE @ + osc.frequency]

\* CathedralDroneLayer::process, the oscillators' state
drone_process(drone) ==
    [drone EXCEPT !.oscillators = [i \in 1..4 |-> AdvanceOscillator(@[i])]]

----------------------------------------------------------------------------
(* CryptReverb: the write positions of the 8 delay lines *)

\* delay_times, thousandths of a second
DelayTimes == <<23, 31, 41, 53, 67, 79, 97, 113>>

\* CryptReverb::new(sample_rate): size = (sample_rate * time) as usize
NewCryptReverb ==
    [ delay_lines |-> [i \in 1..8 |->
          [ write_pos     |-> 0,
            delay_samples |-> (EngineSampleRate * DelayTimes[i]) \div 1000 ]] ]

\* the read index of CryptReverb::process
ReadPos(line) ==
    (line.write_pos + line.delay_samples - line.delay_samples) % line.delay_samples

\* CryptReverb::process, the delay lines' state:
\* write_pos = (write_pos + 1) % delay_samples
reverb_process(reverb) ==
    [reverb EXCEPT !.delay_lines = [i \in 1..8 |->
        [@[i] EXCEPT !.write_pos = (@ + 1) % reverb.delay_lines[i].delay_samples]]]

\* base_freq of apply_evolutionary_changes for oscillator i (from 1)
EvolutionBaseFrequencies == <<6541, 8241, 9800, 9800>>

----------------------------------------------------------------------------
(* The evolution clock of the orchestrator *)

\* sample_rate handed to HybridDungeonSynthEngine::new, in samples per second
SampleRate == 10

\* samples in one cycle of evolution_phase (30 s) and of
\* micro_variation_timer (2 s)
EvolutionPeriod == SampleRate * 30

MicroPeriod == SampleRate * 2

\* sin(2 * pi * num / den) in ten-thousandths (Bhaskara's rational
\* approximation, exact at the multiples of a quarter turn)
SinTurns(num, den) ==
    LET t == (2 * num) % (2 * den)              \* half turns, over den
        a == IF t <= den THEN t ELSE t - den
        x == (a * 1000) \div den                \* position in the half turn
        y == x * (1000 - x)
        v == (16 * y) \div ((5000000 - 4 * y) \div 10000)
    IN  IF t <= den THEN v ELSE -v

\* a wrap that lets the phase rest on 1.0: if phase > 1.0 { phase -= 1.0 }
AdvancePhaseLate(ticks, period) ==
    IF ticks + 1 > period THEN ticks + 1 - period ELSE ticks + 1

\* phase += 1 / period; if phase >= 1.0 { phase -= 1.0 }, in samples
AdvancePhase(ticks, period) ==
    IF ticks + 1 >= period THEN ticks + 1 - period ELSE ticks + 1

\* calculate_pattern_complexity, ten-thousandths
calculate_pattern_complexity(features, phase) ==
    LET base_complexity == features[2] * 3 + features[6] * 4
                           + features[5] * 2 + features[3]
        temporal_mod == TruncDiv(SinTurns(2 * phase, EvolutionPeriod) * 5, 100)
    IN  Clamp(base_complexity + temporal_mod, 0, 10000)

\* pattern_memory shifted by one with the new complexity in front
ShiftPatternMemory(memory, complexity) ==
    [i \in 0..15 |-> IF i = 0 THEN complexity ELSE memory[i - 1]]

\* harmonic_drift[i] += drift_speed * drift_amount, kept in [0.3, 2.0]
DriftHarmonics(drift, phase) ==
    [i \in 1..4 |->
        Clamp(drift[i]
              + TruncDiv(SinTurns(i * phase, EvolutionPeriod),
                         10 * SampleRate * (10 + (i - 1) * 5)),
              3000, 20000)]

\* scale_evolution += (1 / (sample_rate * 20)) * (1 + temporal_complexity / 2)
AdvanceScaleEvolution(scale_evo, complexity) ==
    LET next == scale_evo + (10000 + complexity \div 2) \div (SampleRate * 20)
    IN  IF next >= 40000 THEN next - 40000 ELSE next

\* the four tables of trigger_evolutionary_samples, centi-Hz
EvolvedFrequencies ==
    << <<22000, 24694, 27718, 29366, 32963, 36999, 41530>>,
       <<26163, 29366, 32963, 34923, 39200, 44000, 49388>>,
       <<22000, 23308, 26163, 27718, 31113, 34923, 36999>>,
       <<19600, 22000, 24694, 26163, 29366, 32963, 34923>> >>

\* the trigger requests of trigger_evolutionary_samples, in source order
EvolutionaryRequests(e) ==
    LET scale_index == (((e.scale_evolution + e.temporal_complexity) % 40000)
                            \div 10000) % 4
        note_index == ((e.evolution_phase * 7) \div EvolutionPeriod) % 7
        base_note == EvolvedFrequencies[scale_index + 1][note_index + 1]
        evolved_note == (base_note * e.harmonic_drift[(note_index % 4) + 1]) \div 10000
        ambient_volume == 200 + (e.temporal_complexity * 3) \div 100
        micro_choice == ((e.micro_variation_timer * 100) \div MicroPeriod) % 3
    IN  IF micro_choice = 0
        THEN << [kind |-> "lute", note |-> evolved_note, velocity |-> ambient_volume] >>
        ELSE IF micro_choice = 1
        THEN << [kind |-> "bell", note |-> evolved_note \div 2, velocity |-> ambient_volume] >>
        ELSE << [kind |-> "lute", note |-> evolved_note,
                 velocity |-> (ambient_volume * 7) \div 10],
                [kind |-> "lute", note |-> (evolved_note * 5) \div 4,
                 velocity |-> ambient_volume \div 2] >>

\* temporal_complexity > 0.3 && micro_variation_timer < 0.1
AmbientDue(e) ==
    e.temporal_complexity > 3000 /\ 10 * e.micro_variation_timer < MicroPeriod

RECURSIVE ApplyTriggers(_, _, _)
\* the trigger calls reqs made in order on the voice pool, each call taking
\* its three random draws from the head of draws
ApplyTriggers(voices, reqs, draws) ==
    IF reqs = <<>>
    THEN voices
    ELSE LET r == Head(reqs)
             after == IF r.kind = "lute"
                      THEN trigger_lute(voices, r.note, r.velocity, Head(draws))
                      ELSE trigger_bell(voices, r.note, r.velocity, Head(draws))
         IN  ApplyTriggers(after, Tail(reqs), Tail(draws))

\* the synthesis_mix written by the evolution clock
EvolutionMix(complexity, phase) ==
    LET base_mix == 3000 + (complexity * 4) \div 10
        evolution_mod == TruncDiv(SinTurns(phase, EvolutionPeriod) * 15, 100)
    IN  Clamp(base_mix + evolution_mod, 1000, 9000)

\* osc.frequency of apply_evolutionary_changes for oscillator i (from 1):
\* base_freq * drift_factor * micro_variation * temporal_variation
EvolvedFrequency(e, i) ==
    LET phase_sin == SinTurns(e.evolution_phase, EvolutionPeriod)
        micro_sin == SinTurns(4 * e.micro_variation_timer, MicroPeriod)
        micro_variation == 1000000 + TruncDiv(micro_sin * 2 * i, 10)
        temporal_variation == 1000000 + TruncDiv(phase_sin * 8, 10)
        drifted == (EvolutionBaseFrequencies[i] * e.harmonic_drift[i]) \div 10000
    IN  MulMicro(MulMicro(drifted, micro_variation), temporal_variation)

\* osc.harmonic_weights[h] *= 1.0 + harmonic_variation, clamped to
\* [0.1, 1.0], with harmonic_variation = sin(2 pi phase (h + 1) 0.7) * 0.1
EvolvedWeight(weight, h, phase) ==
    Clamp(TruncDiv(weight * (10000 + TruncDiv(SinTurns(7 * (h + 1) * phase,
                                                       10 * EvolutionPeriod), 10)),
                   10000),
          100, 1000)

\* apply_evolutionary_changes: the oscillators, the ambient triggers, then
\* the mix
apply_evolutionary_changes(e, draws) ==
    [e EXCEPT
        !.cathedral_drone.oscillators = [i \in 1..4 |->
            [@[i] EXCEPT
                !.frequency = EvolvedFrequency(e, i),
                !.harmonic_weights = [h \in 1..8 |->
                    EvolvedWeight(@[h], h - 1, e.evolution_phase)]]],
        !.current_voices =
            IF AmbientDue(e)
            THEN ApplyTriggers(e.current_voices, EvolutionaryRequests(e), draws)
            ELSE e.current_voices,
        !.synthesis_mix = EvolutionMix(e.temporal_complexity, e.evolution_phase)]

\* update_evolution_state
update_evolution_state(e, draws) ==
    LET phase == AdvancePhase(e.evolution_phase, EvolutionPeriod)
        timer == AdvancePhase(e.micro_variation_timer, MicroPeriod)
        memory == ShiftPatternMemory(e.pattern_memory,
                      calculate_pattern_complexity(e.current_features, phase))
        complexity == SumTo(memory, 15) \div 16
    IN  apply_evolutionary_changes(
            [e EXCEPT !.evolution_phase = phase,
                      !.micro_variation_timer = timer,
                      !.pattern_memory = memory,
                      !.temporal_complexity = complexity,
                      !.harmonic_drift = DriftHarmonics(e.harmonic_drift, phase),
                      !.scale_evolution =
                          AdvanceScaleEvolution(e.scale_evolution, complexity)],
            draws)

----------------------------------------------------------------------------
(* The 64-sample recompute and process_sample *)

\* update_counter % 64 tested after the increment instead of before it
RecomputeDueAfterIncrement(counter) == (counter + 1) % 64 = 0

\* if self.update_counter % 64 == 0
RecomputeDue(counter) == counter % 64 = 0

\* (x * 7.0) as usize % 7 for x in ten-thousandths; the cast saturates
\* negative values to 0
NoteIndex(x) == ((Max(x, 0) * 7) \div 10000) % 7

\* (x * 4.0) as usize % 4 for x in thousandths
BellIndex(x) == ((x * 4) \div 1000) % 4

\* generation as u64, for the feature in thousandths
GenU64(generation) == generation \div 1000

\* gen_u64 / 100 > self.last_milestone_generation / 100
MilestoneDue(generation, last) == GenU64(generation) \div 100 > last \div 100

BellScale == <<13081, 14683, 16481, 17461, 19600, 22000, 24694>>

HighBells == <<22000, 24694, 27718, 31113>>

DeepBells == <<6541, 7342, 8241, 9800>>

ChaosBells == <<13859, 15556, 18500, 20765>>

ArpBells == <<16481, 19600, 24694>>

Lute(note, velocity) == [kind |-> "lute", note |-> note, velocity |-> velocity]

Bell(note, velocity) == [kind |-> "bell", note |-> note, velocity |-> velocity]

\* the lute triggers of update_all_parameters (lines 989-1035), in order
LuteRequests(f, nm, counter, scale) ==
    LET activity_intensity == Min(f[2] * 8, 1000)
        base_note == MulMicro(scale[NoteIndex(nm[1]) + 1], 1000000 + nm[1] * 10)
        run_note == MulMicro(scale[NoteIndex(nm[2]) + 1], 1000000 + nm[2] * 10)
        chromatic_shift == IF nm[6] > 5000 THEN 1059 ELSE 944
        dissonant_note == (scale[NoteIndex(nm[6]) + 1] * chromatic_shift) \div 1000
    IN  IF f[2] > 50
        THEN (IF f[2] > 150 /\ counter % 128 = 0
              THEN << Lute(base_note, (activity_intensity * 6) \div 10) >>
                   \o (IF f[0] > 700 /\ counter % 256 = 0
                       THEN << Lute((base_note * 5) \div 4, (activity_intensity * 4) \div 10) >>
                       ELSE << >>)
              ELSE << >>)
          \o (IF f[2] > 250 /\ counter % 512 = 0
              THEN << Lute(run_note, activity_intensity \div 2) >> ELSE << >>)
          \o (IF f[6] > 250 /\ counter % 192 = 0
              THEN << Lute(dissonant_note, (activity_intensity * 4) \div 10) >> ELSE << >>)
          \o (IF f[1] > 600 /\ counter % 256 = 0
              THEN << Lute(scale[1] \div 2, (activity_intensity * 7) \div 10) >> ELSE << >>)
          \o (IF f[3] > 800 /\ f[5] > 300
              THEN << Lute(scale[7] * 2, (activity_intensity * 6) \div 10) >> ELSE << >>)
        ELSE << >>

\* the bell triggers of update_all_parameters (lines 1037-1077), in order
BellRequests(f, nm, counter) ==
       (IF f[7] % 60000 < 1000 /\ nm[2] > 4000
        THEN << Bell((BellScale[NoteIndex(nm[3]) + 1] * (5000 + f[5])) \div 5000,
                     400 + (f[2] * 3) \div 10) >>
        ELSE << >>)
    \o (IF f[2] > 200 /\ f[5] > 300 /\ counter % 128 = 0
        THEN << Bell((HighBells[BellIndex(f[2]) + 1] * (5000 + f[0])) \div 5000,
                     f[2] \div 2) >>
        ELSE << >>)
    \o (IF f[1] > 400 /\ f[4] > 500 /\ counter % 256 = 0
        THEN << Bell(MulMicro(DeepBells[BellIndex(f[1]) + 1], 1000000 + nm[3] * 30),
                     f[1] * 8) >>
        ELSE << >>)
    \o (IF f[6] > 400 /\ nm[4] > 6000 /\ counter % 192 = 0
        THEN << Bell((ChaosBells[BellIndex(f[6]) + 1] * (49500 + f[6])) \div 50000,
                     (f[6] * 6) \div 10) >>
        ELSE << >>)
    \o (IF f[5] > 700 /\ f[7] % 80000 < 1000
        THEN [i \in 1..3 |->
                Bell(MulMicro(ArpBells[i], 1000000 + nm[5] * 10),
                     ((f[5] + (i - 1) * 50) * 4) \div 10)]
        ELSE << >>)

\* self.synthesis_mix = 0.3 + activity_factor * 0.4 + chaos_factor
\*                      + neural_factor, ten-thousandths
RecomputeMix(f, nm) ==
    3000 + Min(f[2] * 5, 1000) * 4 + f[6] * 6 + TruncDiv(nm[7] * 4, 10)

\* update_all_parameters; the result carries, next to the engine, whether the
\* milestone bell was triggered and the root the scale was built from
update_all_parameters(e, draws) ==
    LET f == e.current_features
        nm == get_modulation_values(f)
        root_hz == RootHz(f[5])
        scale == build_scale(root_hz, ScaleChoice(f[5], f[6]))
        milestone == MilestoneDue(f[7], e.last_milestone_generation)
        requests == (IF milestone THEN << Bell(scale[1], 1000) >> ELSE << >>)
                    \o LuteRequests(f, nm, e.update_counter, scale)
                    \o BellRequests(f, nm, e.update_counter)
    IN  [ engine |->
            [e EXCEPT
                !.scale_notes = scale,
                !.last_milestone_generation =
                    IF milestone THEN GenU64(f[7]) ELSE @,
                !.cathedral_drone =
                    drone_update_parameters(@, DroneBases(scale), DroneDarkness(f),
                                            nm[0], e.cell_matrix.regions),
                !.current_voices = ApplyTriggers(@, requests, draws),
                !.synthesis_mix = RecomputeMix(f, nm)],
          milestone |-> milestone,
          root_hz |-> root_hz ]

\* longest list of triggers one process_sample can make: the milestone bell,
\* 6 lutes and 7 bells of the recompute after 2 from the evolution clock
MaxTriggers == 16

\* a mix taken from the field as the call found it
MixFound(found, written) == found

\* the self.synthesis_mix read by `drone * self.synthesis_mix + ...`: the
\* field as the call's own writes left it, not as the call found it
MixRead(found, written) == written

\* process_sample(game_features): of the drone and the reverb the state
\* carries the phases and the write positions, not the signal, and the
\* sample the tape saturation hands to the limiter comes in as `saturated`;
\* draws holds the random draws of the triggers this call makes (2 for the
\* evolution clock, then the recompute's)
process_sample(e, game_features, draws, saturated) ==
    LET fed == [e EXCEPT !.current_features = game_features]
        evolved == update_evolution_state(fed, SubSeq(draws, 1, 2))
        recomputed == RecomputeDue(e.update_counter)
        updated == update_all_parameters(evolved, SubSeq(draws, 3, MaxTriggers))
        current == IF recomputed THEN updated.engine ELSE evolved
        limited == master_limiter(
                       [ master_gain       |-> e.master_gain,
                         peak_detector     |-> e.peak_detector,
                         compression_ratio |-> e.compression_ratio ],
                       saturated)
    IN  [ engine |->
            [current EXCEPT
                !.update_counter = @ + 1,
                !.cathedral_drone = drone_process(@),
                !.current_voices = bank_process(@),
                !.crypt_reverb = reverb_process(@),
                !.master_gain = limited.lim.master_gain,
                !.peak_detector = limited.lim.peak_detector,
                !.compression_ratio = limited.lim.compression_ratio],
          out |-> StereoPair(limited.out),
          mix |-> MixRead(e.synthesis_mix, current.synthesis_mix),
          recomputed |-> recomputed,
          milestone |-> recomputed /\ updated.milestone,
          root_hz |-> IF recomputed THEN updated.root_hz ELSE 0 ]

----------------------------------------------------------------------------
(* The engine as a value, and the program around it *)

\* HybridDungeonSynthEngine::new
NewEngine ==
    [ current_features          |-> [i \in 0..7 |-> 0],
      update_counter            |-> 0,
      pattern_memory            |-> [i \in 0..15 |-> 0],
      evolution_phase           |-> 0,
      micro_variation_timer     |-> 0,
      harmonic_drift            |-> <<10000, 10000, 10000, 10000>>,
      scale_evolution           |-> 0,
      temporal_complexity       |-> 0,
      synthesis_mix             |-> 7000,
      master_gain               |-> 10000,
      peak_detector             |-> 0,
      compression_ratio         |-> 10000,
      scale_notes               |-> <<22000, 24694, 26163, 29366, 32963, 36999, 41530>>,
      last_milestone_generation |-> 0,
      current_voices            |-> << >>,
      cell_matrix               |-> NewCellMatrix,
      cathedral_drone           |-> NewCathedralDrone,
      crypt_reverb              |-> NewCryptReverb ]

\* the engine held by HYBRID_ENGINE
Engine ==
    [ current_features          |-> current_features,
      update_counter            |-> update_counter,
      pattern_memory            |-> pattern_memory,
      evolution_phase           |-> evolution_phase,
      micro_variation_timer     |-> micro_variation_timer,
      harmonic_drift            |-> harmonic_drift,
      scale_evolution           |-> scale_evolution,
      temporal_complexity       |-> temporal_complexity,
      synthesis_mix             |-> synthesis_mix,
      master_gain               |-> master_gain,
      peak_detector             |-> peak_detector,
      compression_ratio         |-> compression_ratio,
      scale_notes               |-> scale_notes,
      last_milestone_generation |-> last_milestone_generation,
      current_voices            |-> current_voices,
      cell_matrix               |-> cell_matrix,
      cathedral_drone           |-> cathedral_drone,
      crypt_reverb              |-> crypt_reverb ]

\* the engine's fields are those of e
EngineIs(e) ==
    /\ current_features = e.current_features
    /\ update_counter = e.update_counter
    /\ pattern_memory = e.pattern_memory
    /\ evolution_phase = e.evolution_phase
    /\ micro_variation_timer = e.micro_variation_timer
    /\ harmonic_drift = e.harmonic_drift
    /\ scale_evolution = e.scale_evolution
    /\ temporal_complexity = e.temporal_complexity
    /\ synthesis_mix = e.synthesis_mix
    /\ master_gain = e.master_gain
    /\ peak_detector = e.peak_detector
    /\ compression_ratio = e.compression_ratio
    /\ scale_notes = e.scale_notes
    /\ last_milestone_generation = e.last_milestone_generation
    /\ current_voices = e.current_voices
    /\ cell_matrix = e.cell_matrix
    /\ cathedral_drone = e.cathedral_drone
    /\ crypt_reverb = e.crypt_reverb

\* the engine's fields become those of e
SetEngine(e) ==
    /\ current_features' = e.current_features
    /\ update_counter' = e.update_counter
    /\ pattern_memory' = e.pattern_memory
    /\ evolution_phase' = e.evolution_phase
    /\ micro_variation_timer' = e.micro_variation_timer
    /\ harmonic_drift' = e.harmonic_drift
    /\ scale_evolution' = e.scale_evolution
    /\ temporal_complexity' = e.temporal_complexity
    /\ synthesis_mix' = e.synthesis_mix
    /\ master_gain' = e.master_gain
    /\ peak_detector' = e.peak_detector
    /\ compression_ratio' = e.compression_ratio
    /\ scale_notes' = e.scale_notes
    /\ last_milestone_generation' = e.last_milestone_generation
    /\ current_voices' = e.current_voices
    /\ cell_matrix' = e.cell_matrix
    /\ cathedral_drone' = e.cathedral_drone
    /\ crypt_reverb' = e.crypt_reverb

\* scenes the analyzer can report: [population, density, activity,
\* cluster_count, avg_cluster_size, symmetry, chaos], thousandths
CalmScene == [i \in 0..6 |-> <<800, 700, 300, 200, 100, 900, 100>>[i + 1]]

ChaoticScene == [i \in 0..6 |-> <<1000, 500, 200, 900, 600, 500, 1000>>[i + 1]]

QuietScene == [i \in 0..6 |-> 0]

\* no symmetry and full chaos: the largest drone_darkness
DarkScene == [i \in 0..6 |-> <<1000, 1000, 1000, 1000, 1000, 0, 1000>>[i + 1]]

\* the camera position and the viewport size update_audio_system passes on
CameraX == 0

CameraY == 0

ViewportSize == 8

\* grid.get_alive_cells() in each scene
SceneCells(scene) ==
    IF scene = QuietScene THEN << >>
    ELSE IF scene = CalmScene THEN << <<-12, -11>>, <<-12, -12>>, <<-12, -13>> >>
    ELSE << <<-12, -12>>, <<-11, -12>>, <<-9, -14>>, <<0, 0>>, <<1, 0>>, <<-20, -10>> >>

Threads == {"update", "render", "batch"}

\* the program with the engine installed, every thread between two calls and
\* the simulation at generation 0
Installed ==
    /\ engine_some = TRUE
    /\ mutex = "free"
    /\ pc = [t \in Threads |-> "idle"]
    /\ sample_counter = 0
    /\ stream_position = 0
    /\ sim = [generation |-> 0, scene |-> QuietScene]
    /\ milestone_bells = 0
    /\ recompute_root = 0

\* what the sample bank's callers leave alone
bankFrame == <<current_features, update_counter, clockVars, synthesis_mix,
               limiterVars, scale_notes, last_milestone_generation,
               cell_matrix, synthVars, sharedVars, historyVars>>

\* what the limiter leaves alone
limiterFrame == <<current_features, update_counter, clockVars, synthesis_mix,
                  scale_notes, last_milestone_generation, current_voices, synthVars,
                  cell_matrix, sharedVars, historyVars>>

----------------------------------------------------------------------------
(* The sample bank driven by arbitrary callers *)

BankInit ==
    /\ EngineIs(NewEngine)
    /\ Installed
    /\ op = [name |-> "new", admitted |-> FALSE]
    /\ ret = "none"
    /\ calls = 0

TriggerLute ==
    \E c \in LuteCalls :
        /\ current_voices' = trigger_lute(current_voices, c[1], c[2], c[3])
        /\ op' = [name |-> "trigger_lute",
                  admitted |-> Len(current_voices') > Len(current_voices)]
        /\ UNCHANGED <<bankFrame, ret, calls>>

TriggerBell ==
    \E c \in BellCalls :
        /\ current_voices' = trigger_bell(current_voices, c[1], c[2], c[3])
        /\ op' = [name |-> "trigger_bell",
                  admitted |-> Len(current_voices') > Len(current_voices)]
        /\ UNCHANGED <<bankFrame, ret, calls>>

BankProcess ==
    /\ current_voices' = bank_process(current_voices)
    /\ op' = [name |-> "process", admitted |-> FALSE]
    /\ UNCHANGED <<bankFrame, ret, calls>>

BankNext == TriggerLute \/ TriggerBell \/ BankProcess

SpecBank == BankInit /\ [][BankNext]_vars

\* the same with process() called again and again: the engine calls it once
\* in every process_sample, and the audio thread keeps asking for samples
SpecBankFair == SpecBank /\ WF_vars(BankProcess)

----------------------------------------------------------------------------
(* The master limiter fed arbitrary finite samples *)

\* longest run of limiter calls explored
MaxLimiterCalls == 3

\* samples handed to the limiter, ten-thousandths (-5.0 .. 5.0)
SignalLevels == {-50000, -8000, 0, 5000, 7500, 9000, 50000}

\* levels held for a run of calls, and the length of such a run
HeldLevels == {0, 50000}

BurstLengths == {400}

RECURSIVE LimiterBurst(_, _, _, _)
\* n consecutive master_limiter calls on the same input: the last call's
\* result and the largest output magnitude seen in the run (the run is
\* evaluated as two half runs to keep the evaluation shallow)
LimiterBurst(lim, input, n, worst) ==
    IF n = 1
    THEN LET r == master_limiter(lim, input)
         IN  [lim |-> r.lim, out |-> r.out, worst |-> Max(worst, Abs(r.out))]
    ELSE LET first == LimiterBurst(lim, input, n \div 2, worst)
         IN  IF first.worst >= 0   \* the first half is evaluated before the second
             THEN LimiterBurst(first.lim, input, n - n \div 2, first.worst)
             ELSE first

RECURSIVE LimiterSteps(_, _, _, _)
\* n consecutive adaptations on the same input: the state after the last one
\* and the largest change of the ratio and of the gain made by one sample
LimiterSteps(lim, input, n, acc) ==
    IF n = 1
    THEN LET a == LimiterAdapt(lim, input)
         IN  [ lim |-> a,
               acc |-> [ ratio |-> Max(acc.ratio, Abs(a.compression_ratio - lim.compression_ratio)),
                         gain  |-> Max(acc.gain, Abs(a.master_gain - lim.master_gain)) ] ]
    ELSE LET first == LimiterSteps(lim, input, n \div 2, acc)
         IN  IF first.acc.ratio >= 0   \* the first half is evaluated before the second
             THEN LimiterSteps(first.lim, input, n - n \div 2, first.acc)
             ELSE first

LimiterState ==
    [ master_gain       |-> master_gain,
      peak_detector     |-> peak_detector,
      compression_ratio |-> compression_ratio ]

LimiterInit ==
    /\ EngineIs(NewEngine)
    /\ Installed
    /\ op = [name |-> "new"]
    /\ ret = "none"
    /\ calls = 0

\* lines 926-933 of process_sample: limit one sample, build the stereo pair
LimitOneSample ==
    /\ calls < MaxLimiterCalls
    /\ \E input \in SignalLevels :
        LET r == LimiterBurst(LimiterState, input, 1, 0)
            step == LimiterSteps(LimiterState, input, 1, [ratio |-> 0, gain |-> 0]).acc
        IN  /\ master_gain' = r.lim.master_gain
            /\ peak_detector' = r.lim.peak_detector
            /\ compression_ratio' = r.lim.compression_ratio
            /\ op' = [name |-> "master_limiter", input |-> input, n |-> 1]
            /\ ret' = [limited |-> r.out, worst |-> r.worst, stereo |-> StereoPair(r.out), step |-> step]
    /\ calls' = calls + 1
    /\ UNCHANGED limiterFrame

\* the same for a run of samples at one level
LimitHeldSamples ==
    /\ calls < MaxLimiterCalls
    /\ \E input \in HeldLevels, n \in BurstLengths :
        LET r == LimiterBurst(LimiterState, input, n, 0)
            step == LimiterSteps(LimiterState, input, n, [ratio |-> 0, gain |-> 0]).acc
        IN  /\ master_gain' = r.lim.master_gain
            /\ peak_detector' = r.lim.peak_detector
            /\ compression_ratio' = r.lim.compression_ratio
            /\ op' = [name |-> "master_limiter", input |-> input, n |-> n]
            /\ ret' = [limited |-> r.out, worst |-> r.worst, stereo |-> StereoPair(r.out), step |-> step]
    /\ calls' = calls + 1
    /\ UNCHANGED limiterFrame

LimiterNext == LimitOneSample \/ LimitHeldSamples

SpecLimiter == LimiterInit /\ [][LimiterNext]_vars

----------------------------------------------------------------------------
(* build_scale and get_modulation_values called on their own *)

\* symmetry values from which the orchestrator derives root_hz
SymmetryLevels == {25 * k : k \in 0..40}

\* root frequencies handed to build_scale, centi-Hz
RootLevels == {RootHz(s) : s \in SymmetryLevels} \cup {22000, 44000}

\* values of one feature component, thousandths
FeatureLevels == {0, 500, 1000}

\* samples handed to master_limiter, ten-thousandths
LimiterInputs == {-50000, -9000, -7500, 5000, 7500, 8000, 9000, 12000, 50000}

\* values of master_gain (kept in [0.4, 1.2]) and of compression_ratio (kept
\* in [0.3, 1.0]), ten-thousandths
GainLevels == {4000, 10000, 12000}

RatioLevels == {3000, 5000, 8000, 10000}

\* a peak_detector between the two adaptation thresholds, where a call
\* leaves master_gain and compression_ratio as they are
HeldPeak == 5000

\* the calls explored, each with its arguments
FunctionCalls ==
    {[name |-> "build_scale", root_hz |-> r, mode |-> m] :
        r \in RootLevels, m \in 0..3}
    \cup {[name |-> "get_modulation_values", game_features |-> f] :
        f \in [0..7 -> FeatureLevels]}
    \cup {[name |-> "master_limiter", input |-> i, master_gain |-> g,
           peak_detector |-> HeldPeak, low |-> lo, high |-> hi] :
        i \in LimiterInputs, g \in GainLevels,
        lo \in RatioLevels, hi \in RatioLevels}

FunctionsInit ==
    /\ EngineIs(NewEngine)
    /\ Installed
    /\ op \in FunctionCalls
    /\ ret = "none"
    /\ calls = 0

BuildScaleCall ==
    /\ op.name = "build_scale"
    /\ calls = 0
    /\ ret' = build_scale(op.root_hz, op.mode)
    /\ calls' = 1
    /\ UNCHANGED <<engineVars, sharedVars, historyVars, op>>

GetModulationValuesCall ==
    /\ op.name = "get_modulation_values"
    /\ calls = 0
    /\ ret' = get_modulation_values(op.game_features)
    /\ calls' = 1
    /\ UNCHANGED <<engineVars, sharedVars, historyVars, op>>

\* master_limiter on the same input and gain under two compression ratios
MasterLimiterCall ==
    /\ op.name = "master_limiter"
    /\ calls = 0
    /\ LET lim(ratio) == [ master_gain       |-> op.master_gain,
                           peak_detector     |-> op.peak_detector,
                           compression_ratio |-> ratio ]
           low == master_limiter(lim(op.low), op.input)
           high == master_limiter(lim(op.high), op.input)
       IN  ret' = [ low |-> low.out, high |-> high.out,
                    low_ratio |-> low.lim.compression_ratio,
                    high_ratio |-> high.lim.compression_ratio,
                    gained |-> TruncDiv(op.input * low.lim.master_gain, 10000) ]
    /\ calls' = 1
    /\ UNCHANGED <<engineVars, sharedVars, historyVars, op>>

FunctionsNext == BuildScaleCall \/ GetModulationValuesCall \/ MasterLimiterCall

SpecFunctions == FunctionsInit /\ [][FunctionsNext]_vars

----------------------------------------------------------------------------
(* Calls on the installed engine *)

\* the array update_audio_system hands to update_hybrid_dungeon_synth: the 7
\* features of the scene and generation % 1000 / 1000
FeatureArray(s) ==
    [i \in 0..7 |-> IF i = 7 THEN s.generation % 1000 ELSE s.scene[i]]

\* random draws of one process_sample call: every trigger draws the same
\* three values
Draws == {[k \in 1..MaxTriggers |-> d] : d \in {<<500, 500, 500>>}}

\* samples the tape saturation hands to the limiter, ten-thousandths
SaturatedLevels == {4000}

\* one frame of the game in which the simulation advanced by one generation:
\* update_audio_system pushes the alive cells (update_hybrid_cell_data), then
\* extracts the features and pushes them (update_hybrid_dungeon_synth), each
\* lock taken and released within the step
UpdateAudioSystem(max_generation, scenes) ==
    /\ sim.generation < max_generation
    /\ mutex = "free"
    /\ \E scene \in scenes :
        sim' = [generation |-> sim.generation + 1, scene |-> scene]
    /\ cell_matrix' = IF engine_some
                       THEN update_from_cells(SceneCells(sim'.scene), CameraX,
                                              CameraY, ViewportSize).matrix
                       ELSE cell_matrix
    /\ current_features' = IF engine_some THEN FeatureArray(sim') ELSE current_features
    /\ op' = [name |-> "update_hybrid_dungeon_synth"]
    /\ UNCHANGED <<update_counter, clockVars, synthesis_mix, limiterVars,
                   scale_notes, last_milestone_generation, current_voices, synthVars,
                   engine_some, mutex, pc, sample_counter, stream_position, ret, calls,
                   historyVars>>

\* what a process_sample call leaves in the history
Recorded(r) ==
    /\ milestone_bells' = milestone_bells + (IF r.milestone THEN 1 ELSE 0)
    /\ recompute_root' = IF r.recomputed THEN r.root_hz ELSE recompute_root

\* one process_sample call on the engine's own features, the lock taken and
\* released within the step (generate_hybrid_samples on a buffer of 1)
ProcessSample(max_samples) ==
    /\ calls < max_samples
    /\ engine_some
    /\ mutex = "free"
    /\ \E draws \in Draws, saturated \in SaturatedLevels :
        LET r == process_sample(Engine, current_features, draws, saturated)
        IN  /\ SetEngine(r.engine)
            /\ Recorded(r)
            /\ op' = [name |-> "process_sample", index |-> calls,
                      recomputed |-> r.recomputed, mix |-> r.mix,
                      found |-> synthesis_mix]
            /\ ret' = r.out
    /\ calls' = calls + 1
    /\ UNCHANGED sharedVars

\* mixes asked of set_hybrid_synthesis_mix, ten-thousandths
MixRequests == {-5000, 5000, 20000}

\* set_hybrid_synthesis_mix(mix)
SetHybridSynthesisMix ==
    \E mix \in MixRequests :
        /\ synthesis_mix' = IF mutex = "free" /\ engine_some
                            THEN Clamp(mix, 0, 10000)
                            ELSE synthesis_mix
        /\ op' = [name |-> "set_hybrid_synthesis_mix", mix |-> mix]
        /\ UNCHANGED <<current_features, update_counter, clockVars, limiterVars,
                       scale_notes, last_milestone_generation, current_voices, synthVars,
                       cell_matrix, sharedVars, ret, calls, historyVars>>

EngineInit ==
    /\ EngineIs(NewEngine)
    /\ Installed
    /\ op = [name |-> "new"]
    /\ ret = "none"
    /\ calls = 0

----------------------------------------------------------------------------
(* The engine over a stretch of samples *)

\* samples generated in a run, and generations the game advances in it
MaxSamples == 66

MaxUpdates == 1

EngineUpdate == UpdateAudioSystem(MaxUpdates, {ChaoticScene})

EngineSample == ProcessSample(MaxSamples)

EngineNext == EngineUpdate \/ EngineSample \/ SetHybridSynthesisMix

SpecEngine == EngineInit /\ [][EngineNext]_vars

----------------------------------------------------------------------------
(* The engine while the game runs past generation 100 *)

MaxGenerations == 101

MilestoneSamples == 65

MilestoneUpdate == UpdateAudioSystem(MaxGenerations, {QuietScene})

MilestoneSample == ProcessSample(MilestoneSamples)

MilestoneNext == MilestoneUpdate \/ MilestoneSample

SpecMilestone == EngineInit /\ [][MilestoneNext]_vars

----------------------------------------------------------------------------
(* The threads around HYBRID_ENGINE *)

\* process_sample calls and generations explored, and the frames of the
\* buffer handed to generate_hybrid_samples
ThreadSamples == 3

ThreadGenerations == 2

BufferLen == 2

\* a try_lock that is Ok whoever holds the mutex
try_lock_unchecked(m) == m \in {"free", "update", "render", "batch"}

\* HYBRID_ENGINE.try_lock() is Ok
try_lock(m) == m = "free"

Some(x) == [some |-> TRUE, value |-> x]

None == [some |-> FALSE]

\* a next() whose fall-through ends the stream
EndOfStream == None

\* the fall-through of next(): Some(0.0)
Silence == Some(0)

\* default_volume of init_hybrid_dungeon_synth, thousandths
DefaultVolume == 700

\* output * 0.6 * master_volume
Attenuated(output) == TruncDiv(TruncDiv(output * 6, 10) * DefaultVolume, 1000)

ThreadsInit ==
    /\ EngineIs(NewEngine)
    /\ engine_some = FALSE
    /\ mutex = "free"
    /\ pc = [t \in Threads |-> IF t = "batch" THEN "idle" ELSE "start"]
    /\ sample_counter = 0
    /\ stream_position = 0
    /\ sim = [generation |-> 0, scene |-> QuietScene]
    /\ milestone_bells = 0
    /\ recompute_root = 0
    /\ op = [name |-> "start"]
    /\ ret = "none"
    /\ calls = 0

\* init_hybrid_dungeon_synth: install a new engine under the lock and spawn
\* the audio thread that owns the HybridAudioSource
InitHybridDungeonSynth ==
    /\ pc["update"] = "start"
    /\ mutex = "free"
    /\ SetEngine(NewEngine)
    /\ engine_some' = TRUE
    /\ pc' = [pc EXCEPT !["update"] = "idle", !["render"] = "idle"]
    /\ op' = [name |-> "init_hybrid_dungeon_synth"]
    /\ UNCHANGED <<mutex, sample_counter, stream_position, sim, ret, calls, historyVars>>

\* update_audio_system starts a frame and reaches update_hybrid_cell_data
UpdateCall ==
    /\ pc["update"] = "idle"
    /\ sim.generation < ThreadGenerations
    /\ \E scene \in {ChaoticScene} :
        sim' = [generation |-> sim.generation + 1, scene |-> scene]
    /\ pc' = [pc EXCEPT !["update"] = "cells"]
    /\ op' = [name |-> "update_audio_system"]
    /\ UNCHANGED <<engineVars, engine_some, mutex, sample_counter, stream_position, ret,
                   calls, historyVars>>

\* update_hybrid_cell_data: HYBRID_ENGINE.try_lock(); without the lock the
\* cells of this frame are dropped; update_audio_system then goes on to
\* update_hybrid_dungeon_synth, which calls HYBRID_ENGINE.lock()
CellsTryLock ==
    /\ pc["update"] = "cells"
    /\ IF try_lock(mutex)
       THEN /\ mutex' = "update"
            /\ pc' = [pc EXCEPT !["update"] = "cells_held"]
            /\ op' = [name |-> "locked", by |-> "update"]
       ELSE /\ pc' = [pc EXCEPT !["update"] = "lock"]
            /\ op' = [name |-> "lock", by |-> "update"]
            /\ UNCHANGED mutex
    /\ UNCHANGED <<engineVars, engine_some, sample_counter, stream_position, sim, ret,
                   calls, historyVars>>

\* the first three statements of update_from_cells
ClearedMatrix(cells) ==
    [ grid |-> << >>, regions |-> ZeroRegions, total_cells |-> Len(cells) ]

\* update_from_cells has cleared the grid and the regions
CellsClear ==
    /\ pc["update"] = "cells_held"
    /\ cell_matrix' = IF engine_some THEN ClearedMatrix(SceneCells(sim.scene))
                                     ELSE cell_matrix
    /\ pc' = [pc EXCEPT !["update"] = "cells_cleared"]
    /\ op' = [name |-> "update_from_cells", done |-> FALSE]
    /\ UNCHANGED <<current_features, update_counter, clockVars, synthesis_mix,
                   limiterVars, scale_notes, last_milestone_generation,
                   current_voices, synthVars, engine_some, mutex, sample_counter, stream_position, sim,
                   ret, calls, historyVars>>

\* update_from_cells has filled the grid and the regions, and
\* update_hybrid_cell_data drops the guard
CellsFill ==
    /\ pc["update"] = "cells_cleared"
    /\ cell_matrix' =
           IF engine_some
           THEN update_from_cells(SceneCells(sim.scene), CameraX, CameraY,
                                  ViewportSize).matrix
           ELSE cell_matrix
    /\ mutex' = "free"
    /\ pc' = [pc EXCEPT !["update"] = "lock"]
    /\ op' = [name |-> "lock", by |-> "update"]
    /\ UNCHANGED <<current_features, update_counter, clockVars, synthesis_mix,
                   limiterVars, scale_notes, last_milestone_generation,
                   current_voices, synthVars, engine_some, sample_counter, stream_position, sim, ret,
                   calls, historyVars>>

\* lock() returns to the update thread
UpdateAcquire ==
    /\ pc["update"] = "lock"
    /\ mutex = "free"
    /\ mutex' = "update"
    /\ pc' = [pc EXCEPT !["update"] = "held"]
    /\ op' = [name |-> "locked", by |-> "update"]
    /\ UNCHANGED <<engineVars, engine_some, sample_counter, stream_position, sim, ret,
                   calls, historyVars>>

\* an array copy of which the first four elements are written
HalfCopied(new, old) == [i \in 0..7 |-> IF i < 4 THEN new[i] ELSE old[i]]

\* engine.current_features = features, half way through the copy
UpdateWriteHalf ==
    /\ pc["update"] = "held"
    /\ current_features' = IF engine_some
                           THEN HalfCopied(FeatureArray(sim), current_features)
                           ELSE current_features
    /\ pc' = [pc EXCEPT !["update"] = "writing"]
    /\ op' = [name |-> "copying", by |-> "update"]
    /\ UNCHANGED <<update_counter, clockVars, synthesis_mix, limiterVars,
                   scale_notes, last_milestone_generation, current_voices, synthVars,
                   cell_matrix, engine_some, mutex, sample_counter, stream_position, sim, ret,
                   calls, historyVars>>

\* a push that drops the guard with the copy left where it was
UpdateWriteAbandoned ==
    /\ pc["update"] = "writing"
    /\ mutex' = "free"
    /\ pc' = [pc EXCEPT !["update"] = "idle"]
    /\ op' = [name |-> "update_hybrid_dungeon_synth"]
    /\ UNCHANGED <<engineVars, engine_some, sample_counter, stream_position, sim,
                   ret, calls, historyVars>>

\* engine.current_features = features, and the guard is dropped
UpdateWrite ==
    /\ pc["update"] = "writing"
    /\ current_features' = IF engine_some THEN FeatureArray(sim) ELSE current_features
    /\ mutex' = "free"
    /\ pc' = [pc EXCEPT !["update"] = "idle"]
    /\ op' = [name |-> "update_hybrid_dungeon_synth"]
    /\ UNCHANGED <<update_counter, clockVars, synthesis_mix, limiterVars,
                   scale_notes, last_milestone_generation, current_voices, synthVars,
                   cell_matrix, engine_some, sample_counter, stream_position, sim, ret, calls,
                   historyVars>>

\* HybridAudioSource::next up to the try_lock: with the lock it goes on to
\* the engine, without it it returns the fall-through value
RenderNext ==
    /\ pc["render"] = "idle"
    /\ calls < ThreadSamples
    /\ IF try_lock(mutex)
       THEN /\ mutex' = "render"
            /\ pc' = [pc EXCEPT !["render"] = "locked"]
            /\ op' = [name |-> "locked", by |-> "render"]
            /\ UNCHANGED <<ret, stream_position>>
       ELSE /\ op' = [name |-> "next", acquired |-> FALSE,
                      position |-> stream_position, channel |-> "silence"]
            /\ ret' = Silence
            /\ stream_position' = (stream_position + 1) % 2
            /\ UNCHANGED <<mutex, pc>>
    /\ UNCHANGED <<engineVars, engine_some, sample_counter, sim, calls,
                   historyVars>>

\* HybridAudioSource::next under the lock
RenderProcess ==
    /\ pc["render"] = "locked"
    /\ IF engine_some
       THEN \E draws \in Draws, saturated \in SaturatedLevels :
                LET r == process_sample(Engine, current_features, draws, saturated)
                    output == IF sample_counter % 2 = 0 THEN r.out.left
                                                        ELSE r.out.right
                IN  /\ SetEngine(r.engine)
                    /\ Recorded(r)
                    /\ ret' = Some(Attenuated(output))
                    /\ sample_counter' = sample_counter + 1
                    /\ calls' = calls + 1
                    /\ op' = [name |-> "next", acquired |-> TRUE,
                              position |-> stream_position,
                              channel |-> IF sample_counter % 2 = 0 THEN "left"
                                                                    ELSE "right"]
       ELSE /\ ret' = Silence
            /\ op' = [name |-> "next", acquired |-> TRUE,
                      position |-> stream_position, channel |-> "silence"]
            /\ UNCHANGED <<engineVars, sample_counter, calls, historyVars>>
    /\ stream_position' = (stream_position + 1) % 2
    /\ mutex' = "free"
    /\ pc' = [pc EXCEPT !["render"] = "idle"]
    /\ UNCHANGED <<engine_some, sim>>

\* generate_hybrid_samples reaches HYBRID_ENGINE.lock()
BatchCall ==
    /\ pc["batch"] = "idle"
    /\ calls < ThreadSamples
    /\ pc' = [pc EXCEPT !["batch"] = "lock"]
    /\ op' = [name |-> "lock", by |-> "batch"]
    /\ UNCHANGED <<engineVars, engine_some, mutex, sample_counter, stream_position, sim,
                   ret, calls, historyVars>>

\* lock() returns to the caller of generate_hybrid_samples
BatchAcquire ==
    /\ pc["batch"] = "lock"
    /\ mutex = "free"
    /\ mutex' = "batch"
    /\ pc' = [pc EXCEPT !["batch"] = "held"]
    /\ op' = [name |-> "locked", by |-> "batch"]
    /\ UNCHANGED <<engineVars, engine_some, sample_counter, stream_position, sim, ret,
                   calls, historyVars>>

RECURSIVE FillBuffer(_, _, _, _)
\* for sample in buffer.iter_mut() { *sample = engine.process_sample(..) }:
\* the results of n calls, the first one first (each call's result is a
\* value before the next call starts from it)
FillBuffer(e, n, draws, saturated) ==
    IF n = 0
    THEN << >>
    ELSE CHOOSE filled \in
             { <<r>> \o FillBuffer(r.engine, n - 1, draws, saturated) :
                 r \in {process_sample(e, e.current_features, draws, saturated)} } :
             TRUE

\* generate_hybrid_samples under the lock
BatchFill ==
    /\ pc["batch"] = "held"
    /\ IF engine_some
       THEN \E draws \in Draws, saturated \in SaturatedLevels :
            \E filled \in {FillBuffer(Engine, BufferLen, draws, saturated)} :
                LET last == filled[BufferLen]
                    recomputes == {k \in 1..BufferLen : filled[k].recomputed}
                IN  /\ SetEngine(last.engine)
                    /\ milestone_bells' = milestone_bells
                           + Cardinality({k \in 1..BufferLen : filled[k].milestone})
                    /\ recompute_root' =
                           IF recomputes = {} THEN recompute_root
                           ELSE filled[CHOOSE k \in recomputes :
                                         \A j \in recomputes : j <= k].root_hz
                    /\ ret' = [k \in 1..BufferLen |-> filled[k].out]
                    /\ calls' = calls + BufferLen
       ELSE /\ ret' = "untouched"
            /\ UNCHANGED <<engineVars, calls, historyVars>>
    /\ op' = [name |-> "generate_hybrid_samples"]
    /\ mutex' = "free"
    /\ pc' = [pc EXCEPT !["batch"] = "idle"]
    /\ UNCHANGED <<engine_some, sample_counter, stream_position, sim>>

\* get_scale_root()
GetScaleRoot ==
    /\ ret' = IF try_lock(mutex) /\ engine_some THEN Some(scale_notes[1]) ELSE None
    /\ op' = [name |-> "get_scale_root"]
    /\ UNCHANGED <<engineVars, sharedVars, calls, historyVars>>

ThreadsNext ==
    \/ InitHybridDungeonSynth
    \/ UpdateCall \/ CellsTryLock \/ CellsClear \/ CellsFill
    \/ UpdateAcquire \/ UpdateWriteHalf \/ UpdateWrite
    \/ RenderNext \/ RenderProcess
    \/ BatchCall \/ BatchAcquire \/ BatchFill
    \/ GetScaleRoot
    \/ SetHybridSynthesisMix

SpecThreads == ThreadsInit /\ [][ThreadsNext]_vars

----------------------------------------------------------------------------
(* The engine over long buffers: generate_hybrid_samples fills a buffer of  *)
(* n frames under one lock, the game pushing features between two buffers   *)

\* buffers filled in a run, and generations the game advances in it
MaxBuffers == 3

ClockGenerations == 1

\* frames of a buffer: on both sides of the micro-variation period and of
\* the evolution period
BufferLengths == {1, MicroPeriod, EvolutionPeriod, EvolutionPeriod + 2 * MicroPeriod}

\* the evolution clock of an engine: phase, timer, scale_evolution,
\* temporal_complexity, then the four harmonic_drift entries
ClockValues(e) ==
    <<e.evolution_phase, e.micro_variation_timer, e.scale_evolution,
      e.temporal_complexity>> \o e.harmonic_drift

\* what is followed through a buffer: the clock, and of the drone and the
\* reverb every oscillator's frequency and phase, the harmonic weights of
\* the four oscillators one after the other, and every delay line's write
\* and read index
Tracked(e) ==
    [ clock     |-> ClockValues(e),
      frequency |-> [i \in 1..4 |-> e.cathedral_drone.oscillators[i].frequency],
      phase     |-> [i \in 1..4 |-> e.cathedral_drone.oscillators[i].phase],
      weight    |-> [k \in 1..32 |->
                       e.cathedral_drone.oscillators[((k - 1) \div 8) + 1]
                           .harmonic_weights[((k - 1) % 8) + 1]],
      write_pos |-> [i \in 1..8 |-> e.crypt_reverb.delay_lines[i].write_pos],
      read_pos  |-> [i \in 1..8 |-> ReadPos(e.crypt_reverb.delay_lines[i])] ]

\* field by field and entry by entry, the lower (pick = Min) or the higher
\* (pick = Max) of two tracked records
Merged(a, b, pick(_, _)) ==
    [f \in DOMAIN a |-> [k \in DOMAIN a[f] |-> pick(a[f][k], b[f][k])]]

\* an accumulator widened by the result r of one more process_sample call
Widened(acc, r) ==
    CHOOSE next \in
        { [ engine     |-> r.engine,
            lo         |-> Merged(acc.lo, now, Min),
            hi         |-> Merged(acc.hi, now, Max),
            milestones |-> acc.milestones + (IF r.milestone THEN 1 ELSE 0),
            root       |-> IF r.recomputed THEN r.root_hz ELSE acc.root ] :
          now \in {Tracked(r.engine)} } : TRUE

RECURSIVE RunSamples(_, _, _, _)
\* the loop of generate_hybrid_samples over n frames, by halves: the engine
\* after the last call, and the lowest and highest value every clock field
\* had after any of the calls
RunSamples(acc, n, draws, saturated) ==
    IF n = 1
    THEN CHOOSE next \in
             { Widened(acc, r) :
                 r \in {process_sample(acc.engine, acc.engine.current_features,
                                       draws, saturated)} } : TRUE
    ELSE CHOOSE next \in
             { RunSamples(half, n - n \div 2, draws, saturated) :
                 half \in {RunSamples(acc, n \div 2, draws, saturated)} } : TRUE

ClockUpdate == UpdateAudioSystem(ClockGenerations, {ChaoticScene, DarkScene})

\* generate_hybrid_samples(buffer), the lock taken and released within the step
GenerateHybridSamples ==
    /\ calls < MaxBuffers
    /\ engine_some
    /\ mutex = "free"
    /\ \E n \in BufferLengths, draws \in Draws, saturated \in SaturatedLevels :
       \E run \in {RunSamples([engine |-> Engine, lo |-> Tracked(Engine),
                                hi |-> Tracked(Engine),
                                milestones |-> milestone_bells,
                                root |-> recompute_root], n, draws, saturated)} :
            /\ SetEngine(run.engine)
            /\ milestone_bells' = run.milestones
            /\ recompute_root' = run.root
            /\ op' = [name |-> "generate_hybrid_samples", n |-> n]
            /\ ret' = [lo |-> run.lo, hi |-> run.hi]
    /\ calls' = calls + 1
    /\ UNCHANGED sharedVars

ClockNext == ClockUpdate \/ GenerateHybridSamples

SpecClock == EngineInit /\ [][ClockNext]_vars

----------------------------------------------------------------------------
(* update_from_cells called on its own *)

\* coordinates of single cells, around a camera at the origin
CoordLevels == {-20, -12, -9, -4, 0, 4, 12}

\* viewport sizes
ViewportLevels == {8, 16}

\* n cells in a row, dx apart, starting at (x0, y0)
Row(n, x0, y0, dx) == [k \in 1..n |-> <<x0 + (k - 1) * dx, y0>>]

\* cell lists on both sides of the 200-cell limit
LongLists ==
    { Row(200, -100, -12, 1), Row(201, -5000, -12, 6), Row(240, -100, -12, 1),
      Row(260, -5000, -12, 6) }

CellLists ==
    {<< <<x, y>> >> : x \in CoordLevels, y \in CoordLevels}
    \cup {SceneCells(CalmScene), SceneCells(ChaoticScene), << >>}
    \cup LongLists

CellCalls ==
    {[name |-> "update_from_cells", cells |-> c, camera_x |-> CameraX,
      camera_y |-> CameraY, viewport_size |-> v] :
        c \in CellLists, v \in ViewportLevels}

CellsInit ==
    /\ EngineIs(NewEngine)
    /\ Installed
    /\ op \in CellCalls
    /\ ret = "none"
    /\ calls = 0

UpdateFromCellsCall ==
    /\ op.name = "update_from_cells"
    /\ calls = 0
    /\ \E r \in {update_from_cells(op.cells, op.camera_x, op.camera_y,
                                   op.viewport_size)} :
        /\ cell_matrix' = r.matrix
        /\ ret' = [bucket |-> r.bucket, sampled |-> r.sampled,
                   processed |-> r.processed]
    /\ calls' = 1
    /\ UNCHANGED <<current_features, update_counter, clockVars, synthesis_mix,
                   limiterVars, scale_notes, last_milestone_generation,
                   current_voices, synthVars, sharedVars, historyVars, op>>

CellsNext == UpdateFromCellsCall

SpecCells == CellsInit /\ [][CellsNext]_vars

----------------------------------------------------------------------------
(* calculate_local_intensity and calculate_local_complexity called on their *)
(* own, on the i32 coordinates an unbounded board can hold                  *)

\* coordinates of the second cell of a list: next to the first, on the rim
\* of the radius-3 and radius-5 discs, and far away
OffsetLevels == {-3, -1, 0, 1, 2, 3, 4, 5, 6, 46341, 65536, MaxI32}

\* x coordinates of the first cell
OriginLevels == {-2, 0}

\* the 3x3 block around the origin
Block3 == << <<0, 0>>, <<-1, -1>>, <<0, -1>>, <<1, -1>>, <<-1, 0>>, <<1, 0>>,
             <<-1, 1>>, <<0, 1>>, <<1, 1>> >>

\* lists of distinct live cells
NeighbourLists ==
    { << <<x0, 0>>, <<dx, dy>> >> :
        x0 \in OriginLevels, dx \in OffsetLevels, dy \in OffsetLevels }
    \cup { Block3 \o << <<dx, 0>> >> : dx \in {2, 3, 4} }
    \cup { Block3 }

NeighbourCalls ==
    { [name |-> n, cells |-> c, i |-> i, overflow_checks |-> b] :
        n \in {"calculate_local_intensity", "calculate_local_complexity"},
        c \in {l \in NeighbourLists : \A j, k \in 1..Len(l) : j # k => l[j] # l[k]},
        i \in {1}, b \in BOOLEAN }

NeighboursInit ==
    /\ EngineIs(NewEngine)
    /\ Installed
    /\ op \in NeighbourCalls
    /\ ret = "none"
    /\ calls = 0

\* the loop over the cells panics at the first dist_sq that overflows when
\* the build checks overflow
Panics(call) ==
    /\ call.overflow_checks
    /\ \E k \in 1..Len(call.cells) : DistSqOverflows(call.cells[k], call.cells[call.i])

neighbourFrame ==
    <<current_features, update_counter, clockVars, synthesis_mix, limiterVars,
      scale_notes, last_milestone_generation, current_voices, cell_matrix,
      synthVars, sharedVars, historyVars, op>>

\* calculate_local_intensity(x, y, cells) for the cell (x, y) = cells[i]
LocalIntensityCall ==
    /\ op.name = "calculate_local_intensity"
    /\ calls = 0
    /\ ret' = IF Panics(op)
              THEN [panic |-> TRUE]
              ELSE [ panic |-> FALSE,
                     neighbours |-> CountIf(op.cells, op.cells[op.i], 9),
                     value |-> calculate_local_intensity(op.cells[op.i][1],
                                                         op.cells[op.i][2], op.cells) ]
    /\ calls' = 1
    /\ UNCHANGED neighbourFrame

\* calculate_local_complexity(x, y, cells) for the cell (x, y) = cells[i]
LocalComplexityCall ==
    /\ op.name = "calculate_local_complexity"
    /\ calls = 0
    /\ ret' = IF Panics(op)
              THEN [panic |-> TRUE]
              ELSE [ panic |-> FALSE,
                     neighbours |-> CountIf(op.cells, op.cells[op.i], 25),
                     value |-> calculate_local_complexity(op.cells[op.i][1],
                                                          op.cells[op.i][2], op.cells) ]
    /\ calls' = 1
    /\ UNCHANGED neighbourFrame

NeighboursNext == LocalIntensityCall \/ LocalComplexityCall

SpecNeighbours == NeighboursInit /\ [][NeighboursNext]_vars

----------------------------------------------------------------------------
(* The bounded Grid of lib.rs.  The bit-packed rows are carried as the set  *)
(* of the coordinates whose bit is set.                                    *)

\* Grid::new
NewGrid(cols, rows) == [cols |-> cols, rows |-> rows, data |-> {}]

\* Grid::is_alive
is_alive(grid, x, y) ==
    IF x >= grid.cols \/ y >= grid.rows THEN FALSE ELSE <<x, y>> \in grid.data

\* Grid::set
set(grid, x, y, alive) ==
    IF x >= grid.cols \/ y >= grid.rows
    THEN grid
    ELSE [grid EXCEPT !.data = IF alive THEN @ \cup {<<x, y>>} ELSE @ \ {<<x, y>>}]

\* the remainder of Rust's %, which has the sign of the dividend
Rem(a, b) == IF a >= 0 THEN a % b ELSE -((-a) % b)

\* neighbour_coord, for a build with the wrap feature and for one without
neighbour_coord(pos, delta, max, wrap) ==
    LET signed == pos + delta
    IN  IF wrap THEN Rem(Rem(signed, max) + max, max)
                ELSE Clamp(signed, 0, max - 1)

\* Grid::live_neighbours: the offsets around (x, y) that land on a live cell
live_neighbours(grid, x, y, wrap) ==
    Cardinality({d \in {-1, 0, 1} \X {-1, 0, 1} :
        /\ d # <<0, 0>>
        /\ is_alive(grid, neighbour_coord(x, d[1], grid.cols, wrap),
                          neighbour_coord(y, d[2], grid.rows, wrap))})

\* ConwayRule::next is CellState::Alive
ConwayRule(grid, x, y, wrap) ==
    LET alive == is_alive(grid, x, y)
        n == live_neighbours(grid, x, y, wrap)
    IN  (alive /\ n \in {2, 3}) \/ (~alive /\ n = 3)

\* a step that sets the bits of the cells the rule makes alive and never
\* clears a bit of the copy
step_never_clears(grid, wrap) ==
    [grid EXCEPT !.data = @ \cup
        {c \in (0..(grid.cols - 1)) \X (0..(grid.rows - 1)) :
            ConwayRule(grid, c[1], c[2], wrap)}]

\* Grid::step under ConwayRule: next starts as a copy of data, every cell's
\* bit is set or cleared by the rule read from the grid before the step
step(grid, wrap) ==
    LET cells == (0..(grid.cols - 1)) \X (0..(grid.rows - 1))
        to_set == {c \in cells : ConwayRule(grid, c[1], c[2], wrap)}
        to_clear == cells \ to_set
    IN  [grid EXCEPT !.data = (@ \ to_clear) \cup to_set]

\* steps taken on one grid
MaxSteps == 2

\* the grid of the test blinker_oscillates
VerticalBlinker ==
    set(set(set(NewGrid(5, 5), 2, 1, TRUE), 2, 2, TRUE), 2, 3, TRUE)

HorizontalBlinker ==
    set(set(set(NewGrid(5, 5), 1, 2, TRUE), 2, 2, TRUE), 3, 2, TRUE)

\* 5x5 grids with up to three live cells in the middle 3x3 block
StartGrids ==
    {[NewGrid(5, 5) EXCEPT !.data = d] :
        d \in {e \in SUBSET ((1..3) \X (1..3)) : Cardinality(e) <= 3}}

GridCalls ==
    {[name |-> "step", grid |-> g, wrap |-> w] :
        g \in StartGrids, w \in BOOLEAN}

\* ret is the grid after `calls` steps
GridInit ==
    /\ EngineIs(NewEngine)
    /\ Installed
    /\ op \in GridCalls
    /\ ret = op.grid
    /\ calls = 0

StepCall ==
    /\ op.name = "step"
    /\ calls < MaxSteps
    /\ ret' = step(ret, op.wrap)
    /\ calls' = calls + 1
    /\ UNCHANGED <<engineVars, sharedVars, historyVars, op>>

GridNext == StepCall

SpecGrid == GridInit /\ [][GridNext]_vars

----------------------------------------------------------------------------
(* C1: after any sequence of trigger_lute, trigger_bell and process calls  *)
(* the pool holds at most 6 voices, and a trigger issued while 6 voices    *)
(* are live adds no voice and changes no existing voice.                   *)
C1_VoiceCap ==
    /\ [](Len(current_voices) <= 6)
    /\ [][ (op'.name \in {"trigger_lute", "trigger_bell"}
              /\ Len(current_voices) = 6)
           => current_voices' = current_voices ]_vars

\* a trigger was issued against a full pool and was turned away
C1_Witness ==
    /\ Len(current_voices) = 6
    /\ op.name \in {"trigger_lute", "trigger_bell"}
    /\ ~op.admitted

----------------------------------------------------------------------------
(* C4: for every finite input and every reachable limiter state the        *)
(* limiter's output has magnitude at most 0.95, so both components of the  *)
(* stereo pair have magnitude at most 0.76 and lie within [-1.0, 1.0].     *)
C4_LimiterCeiling ==
    op.name = "master_limiter" =>
        /\ ret.worst <= 9500
        /\ Abs(ret.limited) <= 9500
        /\ Abs(ret.stereo.left) <= 7600
        /\ Abs(ret.stereo.right) <= 7600

\* an input far above both thresholds was limited after the limiter had
\* adapted (peak above 0.8, ratio and gain pulled down)
C4_Witness ==
    /\ op.name = "master_limiter"
    /\ Abs(op.input) = 50000
    /\ peak_detector > 8000
    /\ compression_ratio < 8000
    /\ master_gain < 10000
    /\ Abs(ret.limited) = 9500

----------------------------------------------------------------------------
(* C7: for every root and every mode 0..3 the 7 notes of build_scale are   *)
(* strictly ascending and their semitone offsets from the root lie in      *)
(* 0..11.                                                                  *)
C7_ScaleAscending ==
    (op.name = "build_scale" /\ calls = 1) =>
        /\ \A i \in 1..6 : ret[i] < ret[i + 1]
        /\ \A i \in 1..7 : ret[i] >= op.root_hz /\ ret[i] < 2 * op.root_hz

----------------------------------------------------------------------------
(* C9: for every feature vector with components in [0,1] each of the 8     *)
(* values of get_modulation_values lies in [0,1].                          *)
C9_ModulationInUnitRange ==
    (op.name = "get_modulation_values" /\ calls = 1) =>
        \A i \in 0..7 : ret[i] >= 0 /\ ret[i] <= 10000

----------------------------------------------------------------------------
(* C2: HybridAudioSource::next never waits for the engine lock and never   *)
(* ends the stream: a call can always take its first step, every call      *)
(* returns Some, and a call made while another thread holds the engine     *)
(* mutex or while the engine is not installed returns Some(0.0) and leaves *)
(* every field of the engine as it was.                                    *)
C2_NextNeverWaits ==
    /\ []((pc["render"] = "idle" /\ calls < ThreadSamples) => ENABLED RenderNext)
    /\ [](op.name = "next" => ret.some)
    /\ [][ (op'.name = "next" /\ (mutex \notin {"free", "render"} \/ ~engine_some))
           => (ret' = Some(0) /\ engineVars' = engineVars
               /\ sample_counter' = sample_counter) ]_vars

\* next returned silence while the update thread held the mutex, after the
\* engine had generated samples
C2_Witness ==
    /\ op.name = "next"
    /\ mutex = "update"
    /\ pc["update"] = "held"
    /\ ret = Some(0)
    /\ calls > 0

----------------------------------------------------------------------------
(* C3: no call that pulls samples from the engine is ever blocked on the  *)
(* engine lock while the update thread holds it.                           *)
C3_PullsNeverBlock ==
    ~(pc["batch"] = "lock" /\ mutex = "update")

----------------------------------------------------------------------------
(* C5: once a recompute has run on features whose generation component is  *)
(* 0.1 or above (generation 100 reached) exactly one milestone bell has    *)
(* been triggered, and none has been before.                               *)
C5_MilestoneBell ==
    (op.name = "process_sample" /\ op.recomputed) =>
        milestone_bells = (IF current_features[7] >= 100 THEN 1 ELSE 0)

----------------------------------------------------------------------------
(* C6: update_all_parameters runs on exactly those process_sample calls    *)
(* whose zero-based index is a multiple of 64, whatever the features.      *)
C6_RecomputeCadence ==
    op.name = "process_sample" => (op.recomputed <=> op.index % 64 = 0)

\* the 65th call recomputed, on features the game had pushed
C6_Witness ==
    /\ op.name = "process_sample"
    /\ op.index = 64
    /\ op.recomputed
    /\ current_features[6] = 1000

----------------------------------------------------------------------------
----------------------------------------------------------------------------
(* C10: on every generated sample the synthesis_mix used in the mix lies   *)
(* in [0.0, 1.0].                                                          *)
C10_MixInUnitRange ==
    op.name = "process_sample" => (op.mix >= 0 /\ op.mix <= 10000)

----------------------------------------------------------------------------
(* C11: every cell inside the viewport centred on the camera               *)
(* (|x - camera_x| <= viewport_size / 2, likewise for y) is counted in     *)
(* exactly one of the 16 regions, and a cell outside it is counted in      *)
(* none.                                                                   *)
C11_ViewportPartition ==
    (op.name = "update_from_cells" /\ calls = 1) =>
        \A k \in 1..Len(op.cells) :
            LET in_view ==
                    /\ 2 * Abs(op.cells[k][1] - op.camera_x) <= op.viewport_size
                    /\ 2 * Abs(op.cells[k][2] - op.camera_y) <= op.viewport_size
            IN  IF in_view THEN ret.bucket[k] \in 0..15 ELSE ret.bucket[k] = -1

----------------------------------------------------------------------------
(* C12: given more than 200 cells, update_from_cells samples min(n, 50)    *)
(* cells in each region, n being the cells bucketed into the region, and   *)
(* the region's density is that count over 50; given 200 cells or fewer    *)
(* it processes every cell.                                                *)
C12_RegionSampling ==
    (op.name = "update_from_cells" /\ calls = 1) =>
        IF Len(op.cells) > 200
        THEN \A idx \in 0..15 :
                LET n == Cardinality({k \in 1..Len(op.cells) : ret.bucket[k] = idx})
                IN  /\ Cardinality(ret.sampled[idx]) = Min(n, 50)
                    /\ ret.sampled[idx] \subseteq {k \in 1..Len(op.cells) : ret.bucket[k] = idx}
                    /\ cell_matrix.regions[idx].density = (Min(n, 50) * 1000) \div 50
        ELSE ret.processed = Len(op.cells)

\* 240 cells were pushed and one region received more than 50 of them
C12_Witness ==
    /\ op.name = "update_from_cells"
    /\ calls = 1
    /\ Len(op.cells) = 240
    /\ \E idx \in 0..15 :
        /\ Cardinality({k \in 1..Len(op.cells) : ret.bucket[k] = idx}) > 50
        /\ Cardinality(ret.sampled[idx]) = 50
        /\ cell_matrix.regions[idx].density = 1000

----------------------------------------------------------------------------
(* C13: whenever the render thread or the batch caller holds the engine to *)
(* generate a sample, current_features is one whole pushed feature vector  *)
(* (or the initial one) and the cell matrix is the complete result of one  *)
(* update_from_cells call (or the initial matrix), never a half-written    *)
(* vector or a cleared, unfilled matrix.                                   *)
PushedFeatures ==
    {NewEngine.current_features}
    \cup {FeatureArray([generation |-> g, scene |-> ChaoticScene]) :
            g \in 1..ThreadGenerations}

CompleteMatrices ==
    {NewCellMatrix,
     update_from_cells(SceneCells(ChaoticScene), CameraX, CameraY,
                       ViewportSize).matrix}

C13_WholeInputs ==
    (engine_some /\ (pc["render"] = "locked" \/ pc["batch"] = "held")) =>
        /\ current_features \in PushedFeatures
        /\ cell_matrix \in CompleteMatrices

\* the render thread holds the engine with pushed features and a pushed
\* matrix while the update thread waits to push the next features
C13_Witness ==
    /\ pc["render"] = "locked"
    /\ pc["update"] = "lock"
    /\ sim.generation = 2
    /\ current_features = FeatureArray([generation |-> 1, scene |-> ChaoticScene])
    /\ cell_matrix = update_from_cells(SceneCells(ChaoticScene), CameraX,
                                       CameraY, ViewportSize).matrix

----------------------------------------------------------------------------
(* C14: a stereo frame is one engine step: the next() that delivers the    *)
(* right value of a frame (sample_counter odd) takes it from the           *)
(* process_sample call that produced the frame's left value, so it leaves  *)
(* update_counter as the left value's call left it.                        *)
C14_OneStepPerFrame ==
    [][ ( /\ pc["render"] = "locked"
          /\ engine_some
          /\ sample_counter % 2 = 1
          /\ pc'["render"] = "idle" )
        => update_counter' = update_counter ]_vars

----------------------------------------------------------------------------
(* C15: a recompute whose update_counter is a multiple of none of the gate *)
(* cadences (128, 192, 256, 512) triggers no threshold-gated lute or bell: *)
(* every gate needs its cadence next to its feature threshold.             *)
C15_GatesNeedCadence ==
    ( /\ op.name = "process_sample"
      /\ op.recomputed
      /\ (update_counter - 1) % 128 # 0
      /\ (update_counter - 1) % 192 # 0 )
    => LET nm == get_modulation_values(current_features)
       IN  /\ LuteRequests(current_features, nm, update_counter - 1,
                           scale_notes) = << >>
           /\ BellRequests(current_features, nm, update_counter - 1) = << >>

----------------------------------------------------------------------------
(* C16: a process_sample call attempts an ambient trigger                  *)
(* (temporal_complexity > 0.3 and micro_variation_timer < 0.1) only on the *)
(* sample at which the timer wraps around, so at most once per             *)
(* micro-variation cycle.                                                  *)
C16_AmbientOnlyAtCrossing ==
    [][ (update_counter' = update_counter + 1 /\ AmbientDue(Engine)')
        => micro_variation_timer' < micro_variation_timer ]_vars

----------------------------------------------------------------------------
(* C17: after process() every voice remaining in the pool has amplitude    *)
(* > 0.001 and a playback position inside its sample buffer.               *)
C17_PositionInsideBuffer ==
    op.name = "process" =>
        \A i \in 1..Len(current_voices) :
            /\ current_voices[i].amplitude > 1000
            /\ current_voices[i].position \div 1000 < current_voices[i].sample_len

(* C17, amended: every voice remaining after process() is a voice of the   *)
(* pool before the call, advanced once: it was read inside its buffer in   *)
(* this call (its position before the advance was in bounds), its          *)
(* amplitude is > 0.001 and not above its amplitude before the call.       *)
C17_RetainedVoices ==
    [][ op'.name = "process" =>
        \A i \in 1..Len(current_voices') :
            \E j \in 1..Len(current_voices) :
                LET v == current_voices[j]
                    w == current_voices'[i]
                IN  /\ w.position = v.position + v.pitch_ratio
                    /\ w.sample_len = v.sample_len
                    /\ v.position \div 1000 < v.sample_len
                    /\ w.amplitude > 1000
                    /\ w.amplitude <= v.amplitude ]_vars

\* process() has kept a voice that it advanced to the end of its buffer
C17_Witness ==
    /\ op.name = "process"
    /\ \E i \in 1..Len(current_voices) :
        /\ current_voices[i].position \div 1000 >= current_voices[i].sample_len
        /\ current_voices[i].amplitude > 1000

----------------------------------------------------------------------------
(* C19: for a fixed input whose gained magnitude exceeds 0.7 and a fixed   *)
(* master gain, the magnitude of master_limiter's output does not increase *)
(* as compression_ratio increases.                                         *)
C19_NonIncreasingInRatio ==
    ( /\ op.name = "master_limiter"
      /\ calls = 1
      /\ Abs(ret.gained) > 7000
      /\ ret.low_ratio <= ret.high_ratio )
    => Abs(ret.high) <= Abs(ret.low)

(* C19, amended: for a fixed input whose gained magnitude exceeds 0.7 and  *)
(* a fixed master gain, the magnitude of master_limiter's output does not  *)
(* decrease as compression_ratio increases: the ratio is the slope applied *)
(* to the excess over 0.7.                                                 *)
C19_NonDecreasingInRatio ==
    ( /\ op.name = "master_limiter"
      /\ calls = 1
      /\ Abs(ret.gained) > 7000
      /\ ret.low_ratio <= ret.high_ratio )
    => Abs(ret.low) <= Abs(ret.high)

\* the same input and gain give a larger output under the larger ratio
C19_Witness ==
    /\ op.name = "master_limiter"
    /\ calls = 1
    /\ Abs(ret.gained) > 7000
    /\ ret.low_ratio = 3000
    /\ ret.high_ratio = 10000
    /\ Abs(ret.low) < Abs(ret.high)

----------------------------------------------------------------------------
(* C20: under ConwayRule the vertical blinker of a 5x5 grid is the         *)
(* horizontal blinker after one step and the vertical one again after two  *)
(* (period 2): every cell is computed from the grid before the step, and   *)
(* the end cells of the old blinker are dead after it.                     *)
C20_BlinkerOscillates ==
    (op.name = "step" /\ op.grid = VerticalBlinker /\ calls >= 1) =>
        /\ ret = IF calls % 2 = 1 THEN HorizontalBlinker ELSE VerticalBlinker
        /\ calls % 2 = 1 => ~is_alive(ret, 2, 1) /\ ~is_alive(ret, 2, 3)

\* two steps were taken from the vertical blinker
C20_Witness ==
    /\ op.name = "step"
    /\ op.grid = VerticalBlinker
    /\ calls = 2
    /\ ret = VerticalBlinker

----------------------------------------------------------------------------
(* C21: the drone's retune stays in effect between recomputes: a           *)
(* process_sample call that is not a recompute advances each oscillator's  *)
(* phase with the frequency the latest recompute derived from the base     *)
(* frequencies [scale[0]/4, scale[0]/2, scale[2]/2, scale[4]/2].           *)
C21_RetuneStaysInEffect ==
    [][ (update_counter' = update_counter + 1 /\ ~RecomputeDue(update_counter))
        => /\ cathedral_drone'.base_frequencies = DroneBases(scale_notes')
           /\ \A i \in 1..4 :
                cathedral_drone'.oscillators[i].frequency
                    = cathedral_drone.oscillators[i].frequency ]_vars

----------------------------------------------------------------------------
(* C22: the limiter adapts only by smoothing: no single sample changes the *)
(* compression ratio by more than a thousandth of its distance to the      *)
(* target (at most 0.0007 for a ratio in [0.3, 1.0], 0.0008 with the       *)
(* rounding of the last digit), nor the master gain by more than a         *)
(* ten-thousandth of its distance to the target (at most 0.0001).          *)
C22_NoJump ==
    op.name = "master_limiter" =>
        /\ ret.step.ratio <= (10000 - 3000) \div 1000 + 1
        /\ ret.step.gain <= 1
----------------------------------------------------------------------------
\* the cell c lies in the 3x3 square centred on the cell at
InSquare3(c, at) ==
    /\ ~SubOverflows(c[1], at[1]) /\ Abs(c[1] - at[1]) <= 1
    /\ ~SubOverflows(c[2], at[2]) /\ Abs(c[2] - at[2]) <= 1

\* live cells of the list in the 3x3 square centred on cells[i]
SquareCount(cells, i) == Cardinality({k \in 1..Len(cells) : InSquare3(cells[k], cells[i])})

(* C23: the local intensity of a cell is the number of live cells in the    *)
(* 3x3 square centred on it (itself included) divided by 9, capped at 1.0;  *)
(* cells outside the square do not contribute.                              *)
C23_SquareNeighbourhood ==
    (op.name = "calculate_local_intensity" /\ calls = 1 /\ ~ret.panic) =>
        /\ ret.value = Min((SquareCount(op.cells, op.i) * 1000) \div 9, 1000)
        /\ ret.neighbours = SquareCount(op.cells, op.i)

\* the same, on the lists that have no far cells: the first difference
\* comes from a cell two columns away
C23_NearCellsOnly ==
    ( /\ op.name = "calculate_local_intensity" /\ calls = 1 /\ ~ret.panic
      /\ \A k \in 1..Len(op.cells) :
            ~DistSqOverflows(op.cells[k], op.cells[op.i])
            /\ Abs(op.cells[k][1] - op.cells[op.i][1]) <= 2
            /\ op.cells[k][2] = op.cells[op.i][2] ) =>
        ret.neighbours = SquareCount(op.cells, op.i)

\* the true squared distance of the cells a and b is at most limit
TrueDistSqAtMost(a, b, limit) ==
    /\ ~SubOverflows(a[1], b[1]) /\ Abs(a[1] - b[1]) <= limit
    /\ ~SubOverflows(a[2], b[2]) /\ Abs(a[2] - b[2]) <= limit
    /\ (a[1] - b[1]) * (a[1] - b[1]) + (a[2] - b[2]) * (a[2] - b[2]) <= limit

\* cells of the list whose true squared distance to cells[i] is at most limit
TrueCount(cells, i, limit) ==
    Cardinality({k \in 1..Len(cells) : TrueDistSqAtMost(cells[k], cells[i], limit)})

(* C28: for all i32 coordinates neither function panics nor wraps: a cell   *)
(* is counted as a neighbour only if its true squared distance is at most   *)
(* 9 (intensity) or at most 25 (complexity).                                *)
C28_NoOverflow ==
    calls = 1 =>
        /\ ~ret.panic
        /\ op.name = "calculate_local_intensity"
                => ret.neighbours = TrueCount(op.cells, op.i, 9)
        /\ op.name = "calculate_local_complexity"
                => ret.neighbours = TrueCount(op.cells, op.i, 25)

\* the wrap alone: without overflow checks a far cell is counted
C28_NoWrap ==
    (calls = 1 /\ ~op.overflow_checks /\ op.name = "calculate_local_intensity") =>
        ret.neighbours = TrueCount(op.cells, op.i, 9)
----------------------------------------------------------------------------
\* the clock values v are in range: phase and timer in [0, 1), scale_evolution
\* in [0, 4), temporal_complexity in [0, 1], every drift entry in [0.3, 2.0]
ClockInRange(v) ==
    /\ v[1] >= 0 /\ v[1] < EvolutionPeriod
    /\ v[2] >= 0 /\ v[2] < MicroPeriod
    /\ v[3] >= 0 /\ v[3] < 40000
    /\ v[4] >= 0 /\ v[4] <= 10000
    /\ \A k \in 5..8 : v[k] >= 3000 /\ v[k] <= 20000

(* C24: in every reachable engine state, the states between two samples of *)
(* a buffer included, evolution_phase and micro_variation_timer are in      *)
(* [0, 1), scale_evolution is in [0, 4), each harmonic_drift entry is in    *)
(* [0.3, 2.0] and temporal_complexity, the mean of pattern_memory, is in    *)
(* [0, 1].                                                                  *)
C24_ClockInRange ==
    /\ ClockInRange(ClockValues(Engine))
    /\ temporal_complexity = SumTo(pattern_memory, 15) \div 16
    /\ op.name = "generate_hybrid_samples"
            => ClockInRange(ret.lo.clock) /\ ClockInRange(ret.hi.clock)

\* a buffer in which the phase, the timer and scale_evolution each wrapped
\* and the drift moved
C24_Witness ==
    /\ op.name = "generate_hybrid_samples"
    /\ ret.hi.clock[1] = EvolutionPeriod - 1 /\ evolution_phase < ret.hi.clock[1]
    /\ ret.hi.clock[2] = MicroPeriod - 1 /\ micro_variation_timer < ret.hi.clock[2]
    /\ ret.hi.clock[3] > 39000 /\ scale_evolution < 1000
    /\ temporal_complexity > 0
    /\ ret.lo.clock[5] < 10000 \/ ret.hi.clock[5] > 10000
----------------------------------------------------------------------------
\* the tracked values v of the drone and the reverb are in range
SynthInRange(v) ==
    /\ \A i \in 1..4 : v.frequency[i] > 0
    /\ \A i \in 1..4 : v.phase[i] >= 0 /\ v.phase[i] < PhaseTurn
    /\ \A k \in 1..32 : v.weight[k] >= 50 /\ v.weight[k] <= 1000
    /\ \A i \in 1..8 :
          /\ v.write_pos[i] >= 0
          /\ v.write_pos[i] < crypt_reverb.delay_lines[i].delay_samples
          /\ v.read_pos[i] >= 0
          /\ v.read_pos[i] < crypt_reverb.delay_lines[i].delay_samples

(* C25: in every reachable engine state, the states between two samples of *)
(* a buffer included, and for features in [0, 1], each drone oscillator has *)
(* a frequency above 0, a phase in [0, 1) and its 8 harmonic weights in     *)
(* [0.05, 1.0], and every delay line of the reverb has its write and read   *)
(* index below the length of its buffer.                                    *)
C25_SynthInRange ==
    /\ SynthInRange(Tracked(Engine))
    /\ op.name = "generate_hybrid_samples"
            => SynthInRange(ret.lo) /\ SynthInRange(ret.hi)

\* a run with the darkest scene pushed in which an oscillator's phase
\* wrapped, the shortest delay line's write position wrapped, and a weight
\* sat on the lower clamp of update_parameters
C25_Witness ==
    /\ op.name = "generate_hybrid_samples"
    /\ sim.scene = DarkScene
    /\ \E i \in 1..4 :
          /\ ret.hi.phase[i] + ret.hi.frequency[i] >= PhaseTurn
          /\ cathedral_drone.oscillators[i].phase < ret.hi.phase[i]
    /\ ret.hi.write_pos[1] = crypt_reverb.delay_lines[1].delay_samples - 1
    /\ crypt_reverb.delay_lines[1].write_pos < ret.hi.write_pos[1]
    /\ \E k \in 1..32 : ret.lo.weight[k] = 50
----------------------------------------------------------------------------
----------------------------------------------------------------------------
(* C27: in the interleaved stream every even position carries a left value *)
(* or silence and every odd position a right value or silence, also after  *)
(* calls that returned silence because the engine was locked.              *)
C27_ChannelParity ==
    op.name = "next" =>
        /\ op.position % 2 = 0 => op.channel \in {"left", "silence"}
        /\ op.position % 2 = 1 => op.channel \in {"right", "silence"}
----------------------------------------------------------------------------
(* C29: while process() keeps being called, a pool holding 6 voices drops  *)
(* below 6, so that a later trigger is admitted, and once the triggers     *)
(* stop every voice in the pool is removed after finitely many calls.      *)
C29_VoicesEnd ==
    /\ (Len(current_voices) = MaxVoices) ~> (Len(current_voices) < MaxVoices)
    /\ \/ []<>(op.name \in {"trigger_lute", "trigger_bell"})
       \/ <>[](current_voices = << >>)

\* process() was called on a full pool and left it full: 6 voices that are
\* all still playing
C29_Witness ==
    /\ op.name = "process"
    /\ Len(current_voices) = MaxVoices
    /\ \E k \in 1..MaxVoices : current_voices[k].position > 0
----------------------------------------------------------------------------
(* C30: a cell push can be lost, a feature push cannot.  The cell matrix   *)
(* changes only while the update thread holds the engine; a push that      *)
(* finds the engine held returns at once and leaves the matrix at a        *)
(* complete value.  update_hybrid_dungeon_synth returns only from under    *)
(* the lock it waited for, with current_features equal to the features it  *)
(* was given.                                                              *)
C30_CellPushLostFeaturePushKept ==
    [][ /\ (pc["update"] = "cells" /\ pc'["update"] = "lock") =>
              /\ mutex \in {"render", "batch"}
              /\ cell_matrix' = cell_matrix
              /\ cell_matrix \in CompleteMatrices
        /\ (pc["update"] = "cells" /\ mutex \in {"render", "batch"}) =>
              pc'["update"] \in {"cells", "lock"}
        /\ (engine_some /\ cell_matrix' # cell_matrix) =>
              (mutex = "update" /\ pc["update"] \in {"cells_held", "cells_cleared"})
        /\ (pc["update"] \in {"lock", "held", "writing"} /\ pc'["update"] = "idle") =>
              /\ pc["update"] = "writing"
              /\ mutex = "update"
              /\ engine_some => current_features' = FeatureArray(sim)
        /\ (pc["update"] = "lock" /\ pc'["update"] = "held") =>
              (mutex = "free" /\ mutex' = "update") ]_vars

\* the update thread has returned from the frame of generation 1 with the
\* features of that frame stored and its cells lost: the matrix is still
\* the initial one
C30_Witness ==
    /\ op.name = "update_hybrid_dungeon_synth"
    /\ pc["update"] = "idle"
    /\ sim.generation = 1
    /\ current_features = FeatureArray(sim)
    /\ cell_matrix = NewCellMatrix
    /\ NewCellMatrix # update_from_cells(SceneCells(sim.scene), CameraX, CameraY,
                                         ViewportSize).matrix
====
